---- MODULE Spec2Model ----
(***************************************************************************)
(* A model of the AI-analysis protocol of polymind:                        *)
(*   - src/src/api/ai.ts: streamChat, runWithTavilyTool, streamDirectChat, *)
(*     fetchChatCompletion, searchWithTavily, extractTextContent;          *)
(*   - src/src/components/AIAnalysis.tsx: the useAIAnalysis hook (the      *)
(*     analysis session: runAnalysis, restore, reset, handleToolEvent);    *)
(*   - src/unnamed/part_001 and part_005: EventDrawer / EventContent, the  *)
(*     view that owns the session and is unmounted when the drawer closes. *)
(*                                                                         *)
(* The browser runs one task at a time.  Every `await` of the source is a  *)
(* suspension point; an action of this module is one task: the code that   *)
(* runs from the settlement of an awaited promise up to the next await (or *)
(* a whole event handler of the hook).  Strings are TLA+ strings.          *)
(***************************************************************************)
EXTENDS Integers, Sequences, FiniteSets, TLC

\* ------------------------------------------------------------------ bounds
\* how many times runAnalysis may start a run in one behaviour
MaxRuns == 2
\* how many reads of the response stream may deliver bytes, per run
MaxReads == 2
\* the largest number of pieces of a text shown in the panel
MaxTokens == 5
\* the largest number of lines of a text with tables
MaxRows == 4
\* how many restores may wait for their timer at a time
MaxTimers == 1
\* how many records are added beyond the capacity of the history
MaxExtra == 2

\* ------------------------------------------------------- program constants
\* the loop with one round more than the source allows
MAX_TOOL_ROUNDS_OneMore == 3 + 1

MAX_TOOL_ROUNDS == 3

Null == "<null>"
Undefined == "<undefined>"

ConfigErrorMessage == "Please configure your API Key in Settings first."
EmptyResponseMessage == "Model returned empty response."
NoBodyMessage == "No response body"
UnsupportedMessage == "Unsupported tool call."
MissingQueryMessage == "Missing query argument."
GeneratingMessage == "generating next answer"
RoundLimitMessage == "search finished, generating final answer"
FinalInstruction ==
    "Do not call any tools. Based on the information already gathered, provide your final answer immediately."
SystemInstruction == "You can call search_web when necessary"

\* messages of errors the platform raises (their wording is the browser's)
NetworkErrorMessage == "Failed to fetch"
SyntaxErrorMessage == "Unexpected token in JSON"
AbortErrorMessage == "The user aborted a request."

\* ------------------------------------------------------------ environment
\* The prompt buildPrompt renders for the displayed event.
Prompt == "PROMPT"

\* Configurations runAnalysis may be called with: apiKey and tavilyApiKey.
Configs ==
    { [apiKey |-> k, tavilyApiKey |-> t] : k \in {"", "sk"}, t \in {"", " ", "tvly"} }

\* Texts restore() may be called with (the content of a history record).
RestoreTexts == {"Cached content"}

\* Non-2xx statuses an endpoint may answer with, and the bodies it may send.
ErrorStatuses == {"401", "500"}
ErrorBodies == {"", "boom"}

StatusText(status) ==
    CASE status = "401" -> "Unauthorized"
      [] status = "500" -> "Internal Server Error"
      [] OTHER -> ""

\* ---------------------------------------------------------------- strings
\* String.prototype.trim: strip white space at both ends.
IsSpace(c) == c \in {" ", "\n", "\t", "\r"}

RECURSIVE TrimStart(_)
TrimStart(s) ==
    IF Len(s) > 0 /\ IsSpace(SubSeq(s, 1, 1)) THEN TrimStart(SubSeq(s, 2, Len(s))) ELSE s

RECURSIVE TrimEnd(_)
TrimEnd(s) ==
    IF Len(s) > 0 /\ IsSpace(SubSeq(s, Len(s), Len(s)))
    THEN TrimEnd(SubSeq(s, 1, Len(s) - 1))
    ELSE s

Trim(s) == TrimEnd(TrimStart(s))

\* s.includes(sub)
Contains(s, sub) ==
    \E i \in 1..(Len(s) - Len(sub) + 1) : SubSeq(s, i, i + Len(sub) - 1) = sub

\* s.startsWith(p)
StartsWith(s, p) == Len(s) >= Len(p) /\ SubSeq(s, 1, Len(p)) = p

\* ------------------------------------------------------------ JSON values
JStr(s) == [type |-> "string", v |-> s]
JNum(n) == [type |-> "number", v |-> n]
JArr(items) == [type |-> "array", v |-> items]
JObj(fields) == [type |-> "object", v |-> fields]
JUndef == [type |-> "undefined"]
JNull == [type |-> "null"]

\* ---------------------------------------------------- api/ai.ts, pure part
\* extractTextContent(content): a string is itself, an array is the join of
\* its string items and of the string `text` fields of its object items,
\* anything else is "".
RECURSIVE JoinTextItems(_)
JoinTextItems(items) ==
    IF items = <<>> THEN ""
    ELSE LET item == Head(items)
             piece == CASE item.type = "string" -> item.v
                        [] item.type = "object" /\ "text" \in DOMAIN item.v ->
                             IF item.v.text.type = "string" THEN item.v.text.v ELSE ""
                        [] OTHER -> ""
         IN  piece \o JoinTextItems(Tail(items))

extractTextContent(content) ==
    CASE content.type = "string" -> content.v
      [] content.type = "array" -> JoinTextItems(content.v)
      [] OTHER -> ""

\* JSON.parse of a tool call's `arguments` string, as far as the loop looks at
\* it: whether parsing (or reading .query of the parsed value) throws, and the
\* value of .query.
ParseArguments(arguments) ==
    CASE arguments = "{\"query\":\"X\"}" -> [threw |-> FALSE, query |-> JStr("X")]
      [] arguments = "{\"query\":\" X \"}" -> [threw |-> FALSE, query |-> JStr(" X ")]
      [] arguments = "{\"query\":\"  \"}" -> [threw |-> FALSE, query |-> JStr("  ")]
      [] arguments = "{\"query\":\"\"}" -> [threw |-> FALSE, query |-> JStr("")]
      [] arguments = "{\"query\":5}" -> [threw |-> FALSE, query |-> JNum(5)]
      [] arguments = "{}" -> [threw |-> FALSE, query |-> JUndef]
      [] arguments = "5" -> [threw |-> FALSE, query |-> JUndef]
      [] arguments = "null" -> [threw |-> TRUE, query |-> JUndef]
      [] OTHER -> [threw |-> TRUE, query |-> JUndef]

\* lines 275-283 of runWithTavilyTool: the query of a search_web call, "" when
\* the arguments do not parse or carry no string query.
ParseQuery(arguments) ==
    LET args == ParseArguments(arguments)
    IN  IF ~args.threw /\ args.query.type = "string" THEN Trim(args.query.v) ELSE ""

\* searchWithTavily, lines 103-118: the normalised result of a 2xx response.
StringOrEmpty(value) == IF value.type = "string" THEN value.v ELSE ""

NormalizeResult(item) ==
    [title |-> StringOrEmpty(item.title),
     url |-> StringOrEmpty(item.url),
     content |-> StringOrEmpty(item.content)]

NormalizeSearch(query, raw) ==
    LET list == IF raw.results.type = "array" THEN raw.results.v ELSE <<>>
    IN  [query |-> query,
         answer |-> StringOrEmpty(raw.answer),
         results |-> [i \in 1..Len(list) |-> NormalizeResult(list[i])]]

\* `Found ${n} results.`
Digit(n) == CASE n = 0 -> "0" [] n = 1 -> "1" [] n = 2 -> "2" [] n = 3 -> "3"
              [] n = 4 -> "4" [] n = 5 -> "5" [] n = 6 -> "6" [] n = 7 -> "7"
              [] n = 8 -> "8" [] n = 9 -> "9" [] OTHER -> "n"
FoundMessage(n) == "Found " \o Digit(n) \o " results."

\* `API Error ${status}: ${errorBody || response.statusText}`
HttpErrorMessage(prefix, status, body) ==
    prefix \o " " \o status \o ": " \o (IF body # "" THEN body ELSE StatusText(status))

\* the transcript entries of runWithTavilyTool
SystemMsg == [role |-> "system", content |-> SystemInstruction]
UserMsg(text) == [role |-> "user", content |-> text]
AssistantMsg(text, calls) == [role |-> "assistant", content |-> text, tool_calls |-> calls]
\* a tool entry that does not echo the id of the call it answers
ToolMsgWithoutId(id, result) == [role |-> "tool", tool_call_id |-> "", content |-> result]
ToolMsg(id, result) == [role |-> "tool", tool_call_id |-> id, content |-> result]
ErrorResult(message) == [error |-> message]

\* the events runWithTavilyTool hands to onToolEvent
ToolEvent(phase, callId, tool, query, message) ==
    [phase |-> phase, callId |-> callId, tool |-> tool, query |-> query, message |-> message]

\* the loop without the transcript entry that answers an unsupported call
RECURSIVE ProcessToolCallsNoAnswer(_, _, _, _)
ProcessToolCallsNoAnswer(calls, i, messages, events) ==
    IF i > Len(calls)
    THEN [messages |-> messages, events |-> events, idx |-> 0, query |-> ""]
    ELSE LET toolCall == calls[i]
             query == ParseQuery(toolCall.arguments)
         IN  IF toolCall.name # "search_web"
             THEN ProcessToolCallsNoAnswer(calls, i + 1, messages,
                      Append(events,
                          ToolEvent("error", toolCall.id,
                                    IF toolCall.name = "" THEN "unknown_tool" ELSE toolCall.name,
                                    "", UnsupportedMessage)))
             ELSE IF query = ""
             THEN ProcessToolCallsNoAnswer(calls, i + 1,
                      Append(messages, ToolMsg(toolCall.id, ErrorResult(MissingQueryMessage))),
                      Append(events,
                          ToolEvent("error", toolCall.id, "search_web", "", MissingQueryMessage)))
             ELSE [messages |-> messages,
                   events |-> Append(events,
                                  ToolEvent("start", toolCall.id, "search_web", query, Undefined)),
                   idx |-> i,
                   query |-> query]

\* the loop without the 'start' event of a search
RECURSIVE ProcessToolCallsNoStart(_, _, _, _)
ProcessToolCallsNoStart(calls, i, messages, events) ==
    IF i > Len(calls)
    THEN [messages |-> messages, events |-> events, idx |-> 0, query |-> ""]
    ELSE LET toolCall == calls[i]
             query == ParseQuery(toolCall.arguments)
         IN  IF toolCall.name # "search_web"
             THEN ProcessToolCallsNoStart(calls, i + 1,
                      Append(messages, ToolMsg(toolCall.id, ErrorResult(UnsupportedMessage))),
                      Append(events,
                          ToolEvent("error", toolCall.id,
                                    IF toolCall.name = "" THEN "unknown_tool" ELSE toolCall.name,
                                    "", UnsupportedMessage)))
             ELSE IF query = ""
             THEN ProcessToolCallsNoStart(calls, i + 1,
                      Append(messages, ToolMsg(toolCall.id, ErrorResult(MissingQueryMessage))),
                      Append(events,
                          ToolEvent("error", toolCall.id, "search_web", "", MissingQueryMessage)))
             ELSE [messages |-> messages, events |-> events, idx |-> i, query |-> query]

\* Lines 258-306: the synchronous part of the loop over the tool calls of one
\* response, from call i on.  Unsupported calls and calls without a query are
\* answered in the transcript and skipped; the loop stops at the first call
\* that needs a search (idx > 0: the call whose search is awaited) or at the
\* end of the list (idx = 0).
RECURSIVE ProcessToolCalls(_, _, _, _)
ProcessToolCalls(calls, i, messages, events) ==
    IF i > Len(calls)
    THEN [messages |-> messages, events |-> events, idx |-> 0, query |-> ""]
    ELSE LET toolCall == calls[i]
             query == ParseQuery(toolCall.arguments)
         IN  IF toolCall.name # "search_web"
             THEN ProcessToolCalls(calls, i + 1,
                      Append(messages, ToolMsg(toolCall.id, ErrorResult(UnsupportedMessage))),
                      Append(events,
                          ToolEvent("error", toolCall.id,
                                    IF toolCall.name = "" THEN "unknown_tool" ELSE toolCall.name,
                                    "", UnsupportedMessage)))
             ELSE IF query = ""
             THEN ProcessToolCalls(calls, i + 1,
                      Append(messages, ToolMsg(toolCall.id, ErrorResult(MissingQueryMessage))),
                      Append(events,
                          ToolEvent("error", toolCall.id, "search_web", "", MissingQueryMessage)))
             ELSE [messages |-> messages,
                   events |-> Append(events,
                                  ToolEvent("start", toolCall.id, "search_web", query, Undefined)),
                   idx |-> i,
                   query |-> query]


\* ------------------------------------------- streamDirectChat, pure part
\* buffer.split("\n"): the pieces between the line feeds, from position `from`
RECURSIVE SplitLines(_, _)
SplitLines(s, from) ==
    LET feeds == {i \in from..Len(s) : SubSeq(s, i, i) = "\n"}
        first == CHOOSE i \in feeds : \A j \in feeds : i <= j
    IN  IF feeds = {} THEN <<SubSeq(s, from, Len(s))>>
        ELSE <<SubSeq(s, from, first - 1)>> \o SplitLines(s, first + 1)

\* The payloads of the frames the chat endpoint streams in this model.
HelloPayload == "{\"choices\":[{\"delta\":{\"content\":\"Hello\"}}]}"
WorldPayload == "{\"choices\":[{\"delta\":{\"content\":\" world\"}}]}"
EmptyDeltaPayload == "{\"choices\":[{\"delta\":{\"content\":\"\"}}]}"
NoChoicePayload == "{\"choices\":[]}"

\* the payload of a frame whose delta is `text` (a text that needs no escape)
DeltaPrefix == "{\"choices\":[{\"delta\":{\"content\":\""
DeltaSuffix == "\"}}]}"
DeltaPayload(text) == DeltaPrefix \o text \o DeltaSuffix

\* JSON.parse(data) followed by parsed.choices?.[0]?.delta?.content (lines
\* 173-176): whether parsing throws, and the content read.  A delta payload
\* whose string holds no quote, backslash or control character parses to that
\* string; any other text that is not one of the documents above (a truncated
\* payload for one) is malformed.
ParseFrame(data) ==
    CASE data = HelloPayload -> [threw |-> FALSE, content |-> JStr("Hello")]
      [] data = WorldPayload -> [threw |-> FALSE, content |-> JStr(" world")]
      [] data = EmptyDeltaPayload -> [threw |-> FALSE, content |-> JStr("")]
      [] data = NoChoicePayload -> [threw |-> FALSE, content |-> JUndef]
      [] OTHER ->
           LET inner == SubSeq(data, Len(DeltaPrefix) + 1, Len(data) - Len(DeltaSuffix))
           IN  IF /\ Len(data) >= Len(DeltaPrefix) + Len(DeltaSuffix)
                  /\ StartsWith(data, DeltaPrefix)
                  /\ SubSeq(data, Len(data) - Len(DeltaSuffix) + 1, Len(data)) = DeltaSuffix
                  /\ \A i \in 1..Len(inner) :
                         SubSeq(inner, i, i) \notin {"\"", "\\", "\n", "\r", "\t"}
               THEN [threw |-> FALSE, content |-> JStr(inner)]
               ELSE [threw |-> TRUE, content |-> JUndef]

\* the loop over the lines, ended by the first payload that is not JSON
RECURSIVE DecodeLinesStopAtBadFrame(_, _)
DecodeLinesStopAtBadFrame(lines, chunks) ==
    IF lines = <<>> THEN [chunks |-> chunks, done |-> FALSE]
    ELSE LET trimmed == Trim(Head(lines))
             data == SubSeq(trimmed, 7, Len(trimmed))
             parsed == ParseFrame(data)
         IN  IF trimmed = "" \/ ~StartsWith(trimmed, "data: ")
             THEN DecodeLinesStopAtBadFrame(Tail(lines), chunks)
             ELSE IF data = "[DONE]" \/ parsed.threw
             THEN [chunks |-> chunks, done |-> TRUE]
             ELSE IF parsed.content.type = "string" /\ parsed.content.v # ""
             THEN DecodeLinesStopAtBadFrame(Tail(lines), Append(chunks, parsed.content.v))
             ELSE DecodeLinesStopAtBadFrame(Tail(lines), chunks)

\* Lines 164-183: the loop over the complete lines of one read.  Result: the
\* deltas handed to onChunk, in order, and whether `[DONE]` ended the loop.
RECURSIVE DecodeLines(_, _)
DecodeLines(lines, chunks) ==
    IF lines = <<>> THEN [chunks |-> chunks, done |-> FALSE]
    ELSE LET trimmed == Trim(Head(lines))
             data == SubSeq(trimmed, 7, Len(trimmed))
             parsed == ParseFrame(data)
         IN  IF trimmed = "" \/ ~StartsWith(trimmed, "data: ")
             THEN DecodeLines(Tail(lines), chunks)
             ELSE IF data = "[DONE]"
             THEN [chunks |-> chunks, done |-> TRUE]
             ELSE IF ~parsed.threw /\ parsed.content.type = "string" /\ parsed.content.v # ""
             THEN DecodeLines(Tail(lines), Append(chunks, parsed.content.v))
             ELSE DecodeLines(Tail(lines), chunks)

RECURSIVE JoinChunks(_)
JoinChunks(chunks) ==
    IF chunks = <<>> THEN "" ELSE Head(chunks) \o JoinChunks(Tail(chunks))

\* one read decoded with a buffer that keeps the lines already decoded
DecodeReadKeepsLines(buffer, value) ==
    LET lines == SplitLines(buffer \o value, 1)
        decoded == DecodeLines(SubSeq(lines, 1, Len(lines) - 1), <<>>)
    IN  [buffer |-> buffer \o value, chunks |-> decoded.chunks, done |-> decoded.done]

\* one read decoded without the line kept from the reads before
DecodeReadNoBuffer(buffer, value) ==
    LET lines == SplitLines(value, 1)
        rest == lines[Len(lines)]
        decoded == DecodeLines(SubSeq(lines, 1, Len(lines) - 1), <<>>)
    IN  [buffer |-> rest, chunks |-> decoded.chunks, done |-> decoded.done]

\* Lines 160-183: one read of `value`: the new buffer, the deltas, the end.
DecodeRead(buffer, value) ==
    LET lines == SplitLines(buffer \o value, 1)
        rest == lines[Len(lines)]
        decoded == DecodeLines(SubSeq(lines, 1, Len(lines) - 1), <<>>)
    IN  [buffer |-> rest, chunks |-> decoded.chunks, done |-> decoded.done]

\* ------------------------------------- AIAnalysis.tsx, the display part
\* s.indexOf(sub, from) with positions counted from 1; 0 when there is none
IndexOf(s, sub, from) ==
    LET at == {i \in from..(Len(s) - Len(sub) + 1) : SubSeq(s, i, i + Len(sub) - 1) = sub}
    IN  IF at = {} THEN 0 ELSE CHOOSE i \in at : \A j \in at : i <= j

\* ContentSegment, lines 631-634
Segment(type, text) == [type |-> type, content |-> text]

\* parseThinkBlocks that trims the text it keeps
RECURSIVE parseThinkBlocksTrimmed(_)
parseThinkBlocksTrimmed(raw) ==
    LET openIdx == IndexOf(raw, "<think>", 1)
        before == SubSeq(raw, 1, openIdx - 1)
        kept == IF Trim(before) # "" THEN <<Segment("text", Trim(before))>> ELSE <<>>
        closeIdx == IndexOf(raw, "</think>", openIdx)
    IN  IF Len(raw) = 0 THEN <<>>
        ELSE IF openIdx = 0
        THEN IF Trim(raw) # "" THEN <<Segment("text", Trim(raw))>> ELSE <<>>
        ELSE IF closeIdx = 0
        THEN kept \o <<Segment("think", SubSeq(raw, openIdx + 7, Len(raw)))>>
        ELSE kept \o <<Segment("think", SubSeq(raw, openIdx + 7, closeIdx - 1))>>
                  \o parseThinkBlocksTrimmed(SubSeq(raw, closeIdx + 8, Len(raw)))

\* parseThinkBlocks that stops after the first closed block
parseThinkBlocksFirstBlock(raw) ==
    LET openIdx == IndexOf(raw, "<think>", 1)
        before == SubSeq(raw, 1, openIdx - 1)
        kept == IF Trim(before) # "" THEN <<Segment("text", before)>> ELSE <<>>
        closeIdx == IndexOf(raw, "</think>", openIdx)
        rest == SubSeq(raw, closeIdx + 8, Len(raw))
    IN  IF Len(raw) = 0 THEN <<>>
        ELSE IF openIdx = 0
        THEN IF Trim(raw) # "" THEN <<Segment("text", raw)>> ELSE <<>>
        ELSE IF closeIdx = 0
        THEN kept \o <<Segment("think", SubSeq(raw, openIdx + 7, Len(raw)))>>
        ELSE kept \o <<Segment("think", SubSeq(raw, openIdx + 7, closeIdx - 1))>>
                  \o (IF Trim(rest) # "" THEN <<Segment("text", rest)>> ELSE <<>>)

\* parseThinkBlocks that waits for the closing tag before it shows a block
RECURSIVE parseThinkBlocksClosedOnly(_)
parseThinkBlocksClosedOnly(raw) ==
    LET openIdx == IndexOf(raw, "<think>", 1)
        before == SubSeq(raw, 1, openIdx - 1)
        kept == IF Trim(before) # "" THEN <<Segment("text", before)>> ELSE <<>>
        closeIdx == IndexOf(raw, "</think>", openIdx)
    IN  IF Len(raw) = 0 THEN <<>>
        ELSE IF openIdx = 0
        THEN IF Trim(raw) # "" THEN <<Segment("text", raw)>> ELSE <<>>
        ELSE IF closeIdx = 0
        THEN kept
        ELSE kept \o <<Segment("think", SubSeq(raw, openIdx + 7, closeIdx - 1))>>
                  \o parseThinkBlocksClosedOnly(SubSeq(raw, closeIdx + 8, Len(raw)))

\* parseThinkBlocks, lines 694-722.  openIdx and closeIdx count from 1, so
\* slice(openIdx + 7) of the source starts at position openIdx + 7 here too.
RECURSIVE parseThinkBlocks(_)
parseThinkBlocks(raw) ==
    LET openIdx == IndexOf(raw, "<think>", 1)
        before == SubSeq(raw, 1, openIdx - 1)
        kept == IF Trim(before) # "" THEN <<Segment("text", before)>> ELSE <<>>
        closeIdx == IndexOf(raw, "</think>", openIdx)
    IN  IF Len(raw) = 0 THEN <<>>
        ELSE IF openIdx = 0
        THEN IF Trim(raw) # "" THEN <<Segment("text", raw)>> ELSE <<>>
        ELSE IF closeIdx = 0
        THEN kept \o <<Segment("think", SubSeq(raw, openIdx + 7, Len(raw)))>>
        ELSE kept \o <<Segment("think", SubSeq(raw, openIdx + 7, closeIdx - 1))>>
                  \o parseThinkBlocks(SubSeq(raw, closeIdx + 8, Len(raw)))

\* raw.replace(/\|\s+\|/g, "|\n|") from position `from` on: each bar that is
\* followed by white space and a bar becomes bar, line feed, bar; the search
\* goes on after the second bar.
RECURSIVE ExpandRows(_, _)
ExpandRows(raw, from) ==
    LET NextText(i) ==
            CHOOSE j \in (i + 1)..(Len(raw) + 1) :
                /\ j > Len(raw) \/ ~IsSpace(SubSeq(raw, j, j))
                /\ \A k \in (i + 1)..(j - 1) : IsSpace(SubSeq(raw, k, k))
        matches == {i \in from..Len(raw) :
                        /\ SubSeq(raw, i, i) = "|"
                        /\ NextText(i) > i + 1
                        /\ NextText(i) <= Len(raw)
                        /\ SubSeq(raw, NextText(i), NextText(i)) = "|"}
        first == CHOOSE i \in matches : \A j \in matches : i <= j
    IN  IF matches = {} THEN SubSeq(raw, from, Len(raw))
        ELSE SubSeq(raw, from, first - 1) \o "|\n|" \o ExpandRows(raw, NextText(first) + 1)

\* s.split(sep) for a separator of one character, from position `from`
RECURSIVE Split(_, _, _)
Split(s, sep, from) ==
    LET at == {i \in from..Len(s) : SubSeq(s, i, i) = sep}
        first == CHOOSE i \in at : \A j \in at : i <= j
    IN  IF at = {} THEN <<SubSeq(s, from, Len(s))>>
        ELSE <<SubSeq(s, from, first - 1)>> \o Split(s, sep, first + 1)

\* one cell of a separator row, \s*:?-+:?\s*
IsDashCell(cell) ==
    LET t == Trim(cell)
        a == IF StartsWith(t, ":") THEN SubSeq(t, 2, Len(t)) ELSE t
        dashes == IF Len(a) > 0 /\ SubSeq(a, Len(a), Len(a)) = ":"
                  THEN SubSeq(a, 1, Len(a) - 1) ELSE a
    IN  Len(dashes) > 0 /\ \A i \in 1..Len(dashes) : SubSeq(dashes, i, i) = "-"

\* isMarkdownTableSeparator, lines 636-638: the trimmed line is a bar, two or
\* more dash cells with bars between them, and possibly a last bar.
isMarkdownTableSeparator(line) ==
    LET t == Trim(line)
        parts == Split(t, "|", 2)
        cells == IF parts[Len(parts)] = "" THEN SubSeq(parts, 1, Len(parts) - 1) ELSE parts
    IN  /\ StartsWith(t, "|")
        /\ Len(cells) >= 2
        /\ \A i \in DOMAIN cells : IsDashCell(cells[i])

\* lines 641-644: the cells of a header line that are not blank
Columns(headerLine) ==
    LET parts == Split(headerLine, "|", 1)
    IN  Cardinality({i \in DOMAIN parts : Trim(parts[i]) # ""})

\* columns.map(() => "---").join(" | ")
RECURSIVE JoinDashes(_)
JoinDashes(n) == IF n = 1 THEN "---" ELSE "---" \o " | " \o JoinDashes(n - 1)

\* a separator with a cell for every part of the header line, blank or not
buildSeparatorForEveryPart(headerLine) ==
    "| " \o JoinDashes(Len(Split(headerLine, "|", 1))) \o " |"

\* buildMarkdownSeparatorFromHeader, lines 640-647
buildMarkdownSeparatorFromHeader(headerLine) ==
    IF Columns(headerLine) < 2 THEN ""
    ELSE "| " \o JoinDashes(Columns(headerLine)) \o " |"

\* line.trim().startsWith("|")
IsTableRow(line) == StartsWith(Trim(line), "|")

\* normalized.join("\n")
RECURSIVE JoinLines(_)
JoinLines(lines) ==
    IF lines = <<>> THEN ""
    ELSE IF Len(lines) = 1 THEN lines[1]
    ELSE lines[1] \o "\n" \o JoinLines(Tail(lines))

\* the loop of the earlier normalizeMarkdownTables (lines 194-209): a
\* separator after every row that another row follows
RECURSIVE NormalizeEveryRow(_, _, _, _)
NormalizeEveryRow(lines, i, inTableBody, normalized) ==
    IF i > Len(lines) THEN normalized
    ELSE LET line == lines[i]
             hasNextRow == i < Len(lines) /\ IsTableRow(lines[i + 1])
             separator == buildMarkdownSeparatorFromHeader(line)
         IN  IF IsTableRow(line) /\ hasNextRow /\ ~isMarkdownTableSeparator(lines[i + 1])
                /\ separator # ""
             THEN NormalizeEveryRow(lines, i + 1, inTableBody, normalized \o <<line, separator>>)
             ELSE NormalizeEveryRow(lines, i + 1, inTableBody, Append(normalized, line))

\* The loop of lines 655-689 from line i on, with the flag inTableBody and
\* the lines pushed so far.
RECURSIVE NormalizeLines(_, _, _, _)
NormalizeLines(lines, i, inTableBody, normalized) ==
    IF i > Len(lines) THEN normalized
    ELSE LET line == lines[i]
             isSep == isMarkdownTableSeparator(line)
             nextIsTable == i < Len(lines) /\ IsTableRow(lines[i + 1])
             separator == buildMarkdownSeparatorFromHeader(line)
         IN  IF ~IsTableRow(line)
             THEN NormalizeLines(lines, i + 1, FALSE, Append(normalized, line))
             ELSE IF inTableBody /\ isSep
             THEN NormalizeLines(lines, i + 1, inTableBody, normalized)
             ELSE IF isSep
             THEN NormalizeLines(lines, i + 1, TRUE, Append(normalized, line))
             ELSE IF ~inTableBody /\ nextIsTable /\ ~isMarkdownTableSeparator(lines[i + 1])
                     /\ separator # ""
             THEN NormalizeLines(lines, i + 1, TRUE, normalized \o <<line, separator>>)
             ELSE NormalizeLines(lines, i + 1, inTableBody, Append(normalized, line))

\* normalizeMarkdownTables, lines 649-692
normalizeMarkdownTables(raw) ==
    JoinLines(NormalizeLines(Split(ExpandRows(raw, 1), "\n", 1), 1, FALSE, <<>>))

\* ------------------------------------------------------------------ state
VARIABLES
    content,          \* useState: the accumulated text shown
    contentRef,       \* useRef: the accumulated text the callbacks append to
    loading,          \* useState
    error,            \* useState: a message or Null
    started,          \* useState
    restored,         \* useState
    toolActivities,   \* useState: the list of AIToolActivity
    abortRef,         \* useRef: the run whose AbortController is current, 0 for null
    mounted,          \* whether the component that owns the hook is mounted
    runs,             \* one record per call of streamChat, in order of start
    fired,            \* the callbacks the last task invoked, in order
    sent,             \* the requests the last task sent, in order
    entries,          \* useAIHistory: the stored records, as setEntries left them
    now,              \* Date.now(), counted in records added
    event,            \* EventContent: the id of the event shown
    timers,           \* setTimeout(..., 0): the texts of the restores not yet run
    home              \* HomePage: its state, the events list and the fetches in flight

vars == <<content, contentRef, loading, error, started, restored, toolActivities,
          abortRef, mounted, runs, fired, sent, entries, now, event, timers, home>>

session == <<content, contentRef, loading, error, started, restored, toolActivities>>

\* where a run is: the request it is in and the promise it awaits
Phases == {"chat", "search", "final", "stream"}
Awaits == {"fetch", "text", "json", "read"}
\* how a run ended: onDone was called and the function returned; the error was
\* handed to onError; the AbortError was swallowed
Ended == {"done", "failed", "cancelled"}

Pending(run) == run.pc \in Awaits

\* The record of a run that has ended: the frame of streamChat is gone, what
\* stays is how it ended, its signal and which callbacks it called.  The
\* counts of the requests it sent and the text it delivered (`text`) are kept
\* while it is in flight.
EndRun(run, how) ==
    [run EXCEPT !.pc = how, !.at = "", !.tool = FALSE, !.round = 0, !.messages = <<>>, !.calls = <<>>, !.idx = 0,
                !.query = "", !.buffer = "", !.received = "", !.status = "", !.reads = 0, !.text = "",
                !.toolRequests = 0, !.finalRequests = 0, !.streamRequests = 0]

\* A rejection of an awaited promise is handled before any other task: the
\* continuation of an aborted request runs at the end of the task that aborted.
Rejecting == \E r \in DOMAIN runs : Pending(runs[r]) /\ runs[r].aborted

\* ------------------------------------------- useAIAnalysis: the callbacks
\* The callbacks work on the hook's state; a state setter of an unmounted
\* component does nothing, a ref stays writable.
Sess ==
    [content |-> content, contentRef |-> contentRef, loading |-> loading,
     error |-> error, toolActivities |-> toolActivities, calls |-> <<>>, sent |-> <<>>]

\* The requests: fetch of <baseUrl>/v1/chat/completions with the body's
\* messages, its stream flag and whether it declares the tool; fetch of the
\* search endpoint with the query.
Request(r, to, stream, tools, messages, query) ==
    [run |-> r, to |-> to, stream |-> stream, tools |-> tools, messages |-> messages,
     query |-> query]

\* lines 208-237: the request of a round of the loop
ToolRoundRequest(r, messages) == Request(r, "chat", FALSE, TRUE, messages, "")
\* the forced-final request sent as one more round: no instruction, the tool declared
FinalRequestAsRound(r, messages) == Request(r, "chat", FALSE, TRUE, messages, "")

\* lines 359-372: the forced-final request
FinalRequest(r, messages) ==
    Request(r, "chat", FALSE, FALSE, Append(messages, UserMsg(FinalInstruction)), "")
\* lines 129-141: the request of streamDirectChat
StreamRequest(r) == Request(r, "chat", TRUE, FALSE, <<UserMsg(Prompt)>>, "")
\* lines 83-94: the request of searchWithTavily
SearchRequest(r, query) == Request(r, "search", FALSE, FALSE, <<>>, query)

Send(S, request) == [S EXCEPT !.sent = Append(@, request)]

Called(r, cb, arg) == [run |-> r, cb |-> cb, arg |-> arg]

\* lines 596-599: the chunk callback
onChunk(S, r, chunk) ==
    [S EXCEPT !.contentRef = @ \o chunk,
              !.content = IF mounted THEN @ \o chunk ELSE @,
              !.calls = Append(@, Called(r, "chunk", chunk))]

\* the done callback without setLoading(false)
onDoneKeepsLoading(S, r) ==
    [S EXCEPT !.calls = IF S.contentRef # ""
                        THEN @ \o <<Called(r, "done", ""), Called(r, "onComplete", S.contentRef)>>
                        ELSE Append(@, Called(r, "done", ""))]

\* lines 600-605: the done callback; onComplete is the caller's handleComplete
onDone(S, r) ==
    [S EXCEPT !.loading = IF mounted THEN FALSE ELSE @,
              !.calls = IF S.contentRef # ""
                        THEN @ \o <<Called(r, "done", ""), Called(r, "onComplete", S.contentRef)>>
                        ELSE Append(@, Called(r, "done", ""))]

\* lines 606-609: the error callback
onError(S, r, message) ==
    [S EXCEPT !.error = IF mounted THEN message ELSE @,
              !.loading = IF mounted THEN FALSE ELSE @,
              !.calls = Append(@, Called(r, "error", message))]

\* lines 517-551: handleToolEvent
NextStatus(phase) ==
    CASE phase = "start" -> "running"
      [] phase = "success" -> "success"
      [] phase = "info" -> "info"
      [] OTHER -> "error"

FindIndex(list, callId) ==
    IF \E i \in DOMAIN list : list[i].callId = callId
    THEN CHOOSE i \in DOMAIN list :
             /\ list[i].callId = callId
             /\ \A j \in 1..(i - 1) : list[j].callId # callId
    ELSE -1

\* the updater without the search for the entry of the call
UpdateActivitiesAppendAlways(prev, eventInfo) ==
    Append(prev, [callId |-> eventInfo.callId, tool |-> eventInfo.tool,
                  query |-> eventInfo.query, status |-> NextStatus(eventInfo.phase),
                  message |-> eventInfo.message])

\* the updater that leaves the status of the entry it finds as it is
UpdateActivitiesKeepsStatus(prev, eventInfo) ==
    LET index == FindIndex(prev, eventInfo.callId)
    IN  IF index = -1
        THEN Append(prev, [callId |-> eventInfo.callId, tool |-> eventInfo.tool,
                           query |-> eventInfo.query, status |-> NextStatus(eventInfo.phase),
                           message |-> eventInfo.message])
        ELSE [prev EXCEPT ![index] =
                 [@ EXCEPT !.message = eventInfo.message,
                           !.query = IF eventInfo.query # "" THEN eventInfo.query ELSE @]]

UpdateActivities(prev, eventInfo) ==
    LET index == FindIndex(prev, eventInfo.callId)
    IN  IF index = -1
        THEN Append(prev, [callId |-> eventInfo.callId, tool |-> eventInfo.tool,
                           query |-> eventInfo.query, status |-> NextStatus(eventInfo.phase),
                           message |-> eventInfo.message])
        ELSE [prev EXCEPT ![index] =
                 [@ EXCEPT !.status = NextStatus(eventInfo.phase),
                           !.message = eventInfo.message,
                           !.query = IF eventInfo.query # "" THEN eventInfo.query ELSE @]]

handleToolEvent(S, r, eventInfo) ==
    [S EXCEPT !.toolActivities = IF mounted THEN UpdateActivities(@, eventInfo) ELSE @,
              !.calls = Append(@, Called(r, "tool", eventInfo))]

RECURSIVE handleToolEvents(_, _, _)
handleToolEvents(S, r, events) ==
    IF events = <<>> THEN S
    ELSE handleToolEvents(handleToolEvent(S, r, Head(events)), r, Tail(events))

RECURSIVE onChunks(_, _, _)
onChunks(S, r, chunks) ==
    IF chunks = <<>> THEN S ELSE onChunks(onChunk(S, r, Head(chunks)), r, Tail(chunks))

\* ------------------------------------------------------------ useAIHistory
\* HomePage.tsx line 122
MAX_ENTRIES == 100

\* the events a user opens
Events == {"E1", "E2"}

\* setEntries of useLocalStorage, called with an updater: the updater is
\* given the list stored before, and `next`, its result, is the list stored
\* from then on
setEntries(next) == entries' = next

\* addEntry that puts the new record behind the stored ones
addEntryAtEnd(entry) ==
    LET newEntry == [id |-> now + 1, timestamp |-> now + 1,
                     eventId |-> entry.eventId, content |-> entry.content]
        Added(prev) ==
            SubSeq(Append(prev, newEntry), 1,
                   IF Len(prev) + 1 < MAX_ENTRIES THEN Len(prev) + 1 ELSE MAX_ENTRIES)
    IN  /\ setEntries(Added(entries))
        /\ now' = now + 1

\* addEntry, lines 130-140.  The id and the timestamp come from Date.now(),
\* which has moved on since the record before.
addEntry(entry) ==
    LET newEntry == [id |-> now + 1, timestamp |-> now + 1,
                     eventId |-> entry.eventId, content |-> entry.content]
        Added(prev) ==
            SubSeq(<<newEntry>> \o prev, 1,
                   IF Len(prev) + 1 < MAX_ENTRIES THEN Len(prev) + 1 ELSE MAX_ENTRIES)
    IN  /\ setEntries(Added(entries))
        /\ now' = now + 1

\* removeEntry, lines 142-147
removeEntry(id) ==
    LET Other(e) == e.id # id
        Without(prev) == SelectSeq(prev, Other)
    IN  /\ setEntries(Without(entries))
        /\ UNCHANGED now

\* clearAll, lines 149-151
clearAll ==
    LET Nothing(prev) == <<>>
    IN  /\ setEntries(Nothing(entries))
        /\ UNCHANGED now

\* the record of an event that was stored first
getOldestForEvent(eventId) ==
    LET at == {i \in DOMAIN entries : entries[i].eventId = eventId}
    IN  IF at = {} THEN Undefined ELSE entries[CHOOSE i \in at : \A j \in at : i >= j]

\* getLatestForEvent, lines 153-158: entries.find
getLatestForEvent(eventId) ==
    LET at == {i \in DOMAIN entries : entries[i].eventId = eventId}
    IN  IF at = {} THEN Undefined ELSE entries[CHOOSE i \in at : \A j \in at : i <= j]

\* EventContent.handleComplete (lines 75-86) for the onComplete call among
\* the calls of a task, wired to addEntry by App (onAnalysisComplete); the
\* event is the one runAnalysis was called for.
handleComplete(calls) ==
    LET completed == {i \in DOMAIN calls : calls[i].cb = "onComplete"}
        call == calls[CHOOSE i \in completed : TRUE]
    IN  IF completed = {} THEN UNCHANGED <<entries, now>>
        ELSE addEntry([eventId |-> runs[call.run].event, content |-> call.arg])

\* A task of run r ends: the run's new record and the hook's state after the
\* callbacks the task invoked.
Step(r, run, S) ==
    /\ runs' = [runs EXCEPT ![r] = run]
    /\ content' = S.content
    /\ contentRef' = S.contentRef
    /\ loading' = S.loading
    /\ error' = S.error
    /\ toolActivities' = S.toolActivities
    /\ fired' = S.calls
    /\ sent' = S.sent
    /\ handleComplete(S.calls)
    /\ UNCHANGED <<started, restored, abortRef, mounted, event, timers, home>>


\* ------------------------------------------------- what the endpoints send
Call(id, name, arguments) == [id |-> id, name |-> name, arguments |-> arguments]

GoodCall(id) == Call(id, "search_web", "{\"query\":\"X\"}")
PaddedCall(id) == Call(id, "search_web", "{\"query\":\" X \"}")
OtherToolCall(id) == Call(id, "get_weather", "{}")
NoQueryCall(id) == Call(id, "search_web", "{}")
BadJsonCall(id) == Call(id, "search_web", "{\"query\":")
BlankQueryCall(id) == Call(id, "search_web", "{\"query\":\"  \"}")

\* The tool-call lists the response of round `round` may carry.  The first
\* response: one search; an unsupported call, a search and a second search;
\* three calls without a usable query.  The responses of the later rounds:
\* one search.  The endpoint gives every call of a run its own id.
CallId(round, i) == "call_" \o Digit(round) \o Digit(i)

ToolCallLists(round) ==
    IF round > 0 THEN { <<GoodCall(CallId(round, 1))>> } ELSE
    { <<GoodCall(CallId(round, 1))>>,
      <<OtherToolCall(CallId(round, 1)), GoodCall(CallId(round, 2)),
        PaddedCall(CallId(round, 3))>>,
      <<NoQueryCall(CallId(round, 1)), BadJsonCall(CallId(round, 2)),
        BlankQueryCall(CallId(round, 3))>> }

ChatMessage(messageContent, toolCalls) ==
    [type |-> "object", content |-> messageContent, tool_calls |-> toolCalls]

\* The JSON bodies of 2xx chat responses: no message, a final answer (as a
\* string or as parts), an empty answer.
PlainResponses ==
    { [choices |-> <<>>],
      [choices |-> <<[message |-> ChatMessage(JStr("Final answer"), JUndef)]>>],
      [choices |-> <<[message |-> ChatMessage(
            JArr(<<JStr("Final"), JObj([text |-> JStr(" answer")])>>), JArr(<<>>))]>>],
      [choices |-> <<[message |-> ChatMessage(JNull, JUndef)]>>] }

\* ... and those that carry tool calls, in round `round`.
ToolCallResponses(round) ==
    { [choices |-> <<[message |-> ChatMessage(JNull, JArr(list))]>>] :
          list \in ToolCallLists(round) }

ChatResponses(round) == PlainResponses \cup ToolCallResponses(round)

\* response.choices?.[0]?.message
MessageOf(response) ==
    IF response.choices = <<>> THEN JUndef ELSE response.choices[1].message

\* The JSON bodies of 2xx search responses.
SearchResponses ==
    { [answer |-> JStr("Y"),
       results |-> JArr(<<[title |-> JStr("T"), url |-> JStr("U"), content |-> JStr("C")]>>)] }

\* What one read of the response stream may deliver.
StreamReads ==
    { "data: " \o HelloPayload \o "\n",
      "data: " \o WorldPayload \o "\n\ndata: [DONE]\n",
      "data: {\"choices\":\n",
      "data: " \o HelloPayload }

\* --------------------------------------------------------------- the runs
\* streamChat, lines 402-407: the run starts in runWithTavilyTool with its
\* first chat request sent (round 0), or in streamDirectChat with the stream
\* request sent.
NewRun(config) ==
    LET tool == Trim(config.tavilyApiKey) # ""
    IN  [tool |-> tool,
         at |-> IF tool THEN "chat" ELSE "stream",
         pc |-> "fetch",
         round |-> 0,
         messages |-> IF tool THEN <<SystemMsg, UserMsg(Prompt)>> ELSE <<>>,
         calls |-> <<>>, idx |-> 0, query |-> "",
         buffer |-> "", received |-> "", status |-> "", reads |-> 0,
         text |-> "",
         aborted |-> FALSE,
         answered |-> FALSE,
         toolRequests |-> IF tool THEN 1 ELSE 0,
         finalRequests |-> 0,
         streamRequests |-> IF tool THEN 0 ELSE 1,
         nDone |-> 0,
         nErr |-> 0,
         event |-> event]

\* runAnalysis and reset without the abort of the previous controller
AbortNothing(rs, ref) == rs

\* abortRef.current?.abort(): the signal of the controller's run is set.  (The
\* signal of a run that has ended is read by nobody; its record stays as it is.)
Abort(rs, ref) ==
    IF ref # 0 /\ Pending(rs[ref]) THEN [rs EXCEPT ![ref].aborted = TRUE] ELSE rs

\* streamChat without the test for AbortError: every error reaches onError
ThrowAbortAsError(r, message, isAbort) ==
    LET run == runs[r]
        S1 == IF run.at = "search"
              THEN handleToolEvent(Sess, r,
                       ToolEvent("error", run.calls[run.idx].id, "search_web", run.query, message))
              ELSE Sess
    IN  Step(r, [EndRun(run, "failed") EXCEPT !.nErr = @ + 1], onError(S1, r, message))

\* streamChat with a catch that swallows every error
ThrowSwallowed(r, message, isAbort) ==
    LET run == runs[r]
        S1 == IF run.at = "search"
              THEN handleToolEvent(Sess, r,
                       ToolEvent("error", run.calls[run.idx].id, "search_web", run.query, message))
              ELSE Sess
    IN  Step(r, EndRun(run, IF isAbort THEN "cancelled" ELSE "failed"), S1)

\* runWithTavilyTool with a catch of the search that reports no tool event
ThrowUnreported(r, message, isAbort) ==
    LET run == runs[r]
    IN  IF isAbort
        THEN Step(r, EndRun(run, "cancelled"), Sess)
        ELSE Step(r, [EndRun(run, "failed") EXCEPT !.nErr = @ + 1], onError(Sess, r, message))

\* An awaited promise of run r rejects with an error of message `message`.
\* Inside searchWithTavily the catch of lines 322-332 reports the error as a
\* tool event and throws it again; the catch of streamChat (lines 408-411)
\* swallows an AbortError and hands any other error to onError.
Throw(r, message, isAbort) ==
    LET run == runs[r]
        S1 == IF run.at = "search"
              THEN handleToolEvent(Sess, r,
                       ToolEvent("error", run.calls[run.idx].id, "search_web", run.query, message))
              ELSE Sess
    IN  IF isAbort
        THEN Step(r, EndRun(run, "cancelled"), S1)
        ELSE Step(r, [EndRun(run, "failed") EXCEPT !.nErr = @ + 1], onError(S1, r, message))

\* the end of a run without the chunk of its text
FinishWithoutChunk(r, run, S, text) ==
    Step(r, [EndRun(run, "done") EXCEPT !.nDone = @ + 1], onDone(S, r))

\* onChunk (when there is text) and onDone, then return.
Finish(r, run, S, text) ==
    Step(r, [EndRun(run, "done") EXCEPT !.nDone = @ + 1],
         onDone(IF text # "" THEN onChunk(S, r, text) ELSE S, r))

\* Lines 258-357: the loop over the tool calls goes on from call i, after the
\* events `events` of this task.  It stops at the next search; at the end of
\* the list it reports `generating`, and sends the next chat request or,
\* the rounds being used up, the forced-final request.
ContinueCalls(r, run, i, events) ==
    LET p == ProcessToolCalls(run.calls, i, run.messages, events)
        generating == ToolEvent("info", "generating-" \o Digit(run.round), "assistant", "",
                                GeneratingMessage)
        limit == ToolEvent("info", "tool-round-limit", "search_web", "", RoundLimitMessage)
    IN  IF p.idx > 0
        THEN Step(r, [run EXCEPT !.messages = p.messages, !.idx = p.idx, !.query = p.query,
                                 !.at = "search", !.pc = "fetch"],
                  Send(handleToolEvents(Sess, r, p.events), SearchRequest(r, p.query)))
        ELSE IF run.round + 1 < MAX_TOOL_ROUNDS
        THEN Step(r, [run EXCEPT !.messages = p.messages, !.calls = <<>>, !.idx = 0,
                                 !.query = "", !.round = @ + 1,
                                 !.at = "chat", !.pc = "fetch", !.toolRequests = @ + 1],
                  Send(handleToolEvents(Sess, r, Append(p.events, generating)),
                       ToolRoundRequest(r, p.messages)))
        ELSE Step(r, [run EXCEPT !.messages = p.messages, !.calls = <<>>, !.idx = 0,
                                 !.query = "", !.round = @ + 1,
                                 !.at = "final", !.pc = "fetch", !.finalRequests = @ + 1],
                  Send(handleToolEvents(Sess, r, p.events \o <<generating, limit>>),
                       FinalRequest(r, p.messages)))


\* --------------------------------------------------------------- HomePage
\* HomePage.tsx, line 8
PAGE_SIZE == 50

\* The most fetches of events in flight at a time, and the most pages that
\* Load More asks for after the first.
MaxFetches == 3
MaxPages == 2

\* fetchEvents, lines 45-62, up to its await: the call of getEvents with the
\* order options of the filter of the render that made the closure; `caller`
\* is what awaits the result (the effect or handleLoadMore) and `cancelled`
\* the flag of the effect's closure.
fetchEvents(filter, currentOffset, append, caller) ==
    [filter |-> filter, offset |-> currentOffset, append |-> append, caller |-> caller,
     cancelled |-> FALSE]

\* HomePage after its first render and effect (lines 38-43, 64-76): the
\* list empty, the filter "new", the first page being fetched.
HomeMounted ==
    [events |-> <<>>, loading |-> TRUE, loadingMore |-> FALSE, offset |-> 0, hasMore |-> TRUE,
     activeFilter |-> "new", fetches |-> <<fetchEvents("new", 0, FALSE, "effect")>>]

\* ------------------------------------------------------------------- Init
\* The hook after its first render, mounted in EventContent.
Init ==
    /\ content = ""
    /\ contentRef = ""
    /\ loading = FALSE
    /\ error = Null
    /\ started = FALSE
    /\ restored = FALSE
    /\ toolActivities = <<>>
    /\ abortRef = 0
    /\ mounted = TRUE
    /\ runs = <<>>
    /\ fired = <<>>
    /\ sent = <<>>
    /\ entries = <<>>
    /\ now = 0
    /\ event = "E1"
    /\ timers = <<>>
    /\ home = HomeMounted

\* ------------------------------------------- useAIAnalysis: the operations
\* runAnalysis without the test of the API key
runAnalysisWithoutKeyCheck(config) ==
    /\ mounted
    /\ ~Rejecting
    /\ fired' = <<>>
    /\ UNCHANGED <<entries, now, event, timers, home>>
    /\ Len(runs) < MaxRuns
    /\ runs' = Append(Abort(runs, abortRef), NewRun(config))
    /\ abortRef' = Len(runs) + 1
    /\ sent' = <<IF NewRun(config).tool
                 THEN ToolRoundRequest(Len(runs) + 1, NewRun(config).messages)
                 ELSE StreamRequest(Len(runs) + 1)>>
    /\ content' = ""
    /\ contentRef' = ""
    /\ error' = Null
    /\ loading' = TRUE
    /\ started' = TRUE
    /\ restored' = FALSE
    /\ toolActivities' = <<>>
    /\ UNCHANGED mounted

\* runAnalysis that leaves the text and the activities of the run before
runAnalysisKeepsState(config) ==
    /\ mounted
    /\ ~Rejecting
    /\ fired' = <<>>
    /\ UNCHANGED <<entries, now, event, timers, home>>
    /\ IF config.apiKey = ""
       THEN /\ error' = ConfigErrorMessage
            /\ started' = TRUE
            /\ sent' = <<>>
            /\ UNCHANGED <<content, contentRef, loading, restored, toolActivities,
                           abortRef, mounted, runs>>
       ELSE /\ Len(runs) < MaxRuns
            /\ runs' = Append(Abort(runs, abortRef), NewRun(config))
            /\ abortRef' = Len(runs) + 1
            /\ sent' = <<IF NewRun(config).tool
                         THEN ToolRoundRequest(Len(runs) + 1, NewRun(config).messages)
                         ELSE StreamRequest(Len(runs) + 1)>>
            /\ contentRef' = ""
            /\ error' = Null
            /\ loading' = TRUE
            /\ started' = TRUE
            /\ restored' = FALSE
            /\ UNCHANGED <<content, toolActivities, mounted>>

\* runAnalysis, lines 574-616.  EventContent always passes an event, so the
\* early return of line 579 is never taken.
runAnalysis(config) ==
    /\ mounted
    /\ ~Rejecting
    /\ fired' = <<>>
    /\ UNCHANGED <<entries, now, event, timers, home>>
    /\ IF config.apiKey = ""
       THEN /\ error' = ConfigErrorMessage
            /\ started' = TRUE
            /\ sent' = <<>>
            /\ UNCHANGED <<content, contentRef, loading, restored, toolActivities,
                           abortRef, mounted, runs>>
       ELSE /\ Len(runs) < MaxRuns
            /\ runs' = Append(Abort(runs, abortRef), NewRun(config))
            /\ abortRef' = Len(runs) + 1
            /\ sent' = <<IF NewRun(config).tool
                         THEN ToolRoundRequest(Len(runs) + 1, NewRun(config).messages)
                         ELSE StreamRequest(Len(runs) + 1)>>
            /\ content' = ""
            /\ contentRef' = ""
            /\ error' = Null
            /\ loading' = TRUE
            /\ started' = TRUE
            /\ restored' = FALSE
            /\ toolActivities' = <<>>
            /\ UNCHANGED mounted

\* reset, lines 553-562: the abort and the setters
resetSession ==
    /\ mounted
    /\ ~Rejecting
    /\ runs' = Abort(runs, abortRef)
    /\ content' = ""
    /\ contentRef' = ""
    /\ loading' = FALSE
    /\ error' = Null
    /\ started' = FALSE
    /\ restored' = FALSE
    /\ toolActivities' = <<>>
    /\ fired' = <<>>
    /\ sent' = <<>>
    /\ UNCHANGED <<abortRef, mounted>>

\* reset that leaves the loading flag as it is
resetKeepsLoading ==
    /\ mounted
    /\ ~Rejecting
    /\ runs' = Abort(runs, abortRef)
    /\ content' = ""
    /\ contentRef' = ""
    /\ error' = Null
    /\ started' = FALSE
    /\ restored' = FALSE
    /\ toolActivities' = <<>>
    /\ fired' = <<>>
    /\ sent' = <<>>
    /\ UNCHANGED <<loading, abortRef, mounted>>
    /\ UNCHANGED <<entries, now, event, timers, home>>

\* reset, called on its own
reset == resetSession /\ UNCHANGED <<entries, now, event, timers, home>>

\* restore that leaves the loading flag and the error as they are
restoreKeepsLoading(restoredContent) ==
    /\ mounted
    /\ ~Rejecting
    /\ content' = restoredContent
    /\ contentRef' = restoredContent
    /\ started' = TRUE
    /\ restored' = TRUE
    /\ toolActivities' = <<>>
    /\ fired' = <<>>
    /\ sent' = <<>>
    /\ UNCHANGED <<loading, error, abortRef, mounted, runs>>
    /\ UNCHANGED <<entries, now, event, timers, home>>

\* restore, lines 564-572: the setters
restoreSession(restoredContent) ==
    /\ mounted
    /\ ~Rejecting
    /\ content' = restoredContent
    /\ contentRef' = restoredContent
    /\ started' = TRUE
    /\ restored' = TRUE
    /\ loading' = FALSE
    /\ error' = Null
    /\ toolActivities' = <<>>
    /\ fired' = <<>>
    /\ sent' = <<>>
    /\ UNCHANGED <<abortRef, mounted, runs>>

\* restore, called on its own
restore(restoredContent) ==
    restoreSession(restoredContent) /\ UNCHANGED <<entries, now, event, timers, home>>

\* EventDrawer renders EventContent only while an event is selected: closing
\* the drawer unmounts the hook.  The hook registers no cleanup, so nothing is
\* aborted; React drops the state of the unmounted component (the refs stay
\* reachable from the callbacks of a run).
Unmount ==
    /\ mounted
    /\ ~Rejecting
    /\ mounted' = FALSE
    /\ content' = ""
    /\ loading' = FALSE
    /\ error' = Null
    /\ started' = FALSE
    /\ restored' = FALSE
    /\ toolActivities' = <<>>
    /\ fired' = <<>>
    /\ sent' = <<>>
    /\ UNCHANGED <<contentRef, abortRef, runs, entries, now, event, timers, home>>

\* ------------------------------------------------- the tasks of a run
\* The request (or the read) that run r awaits was aborted: the awaited
\* promise rejects with an AbortError.
AbortRejected(r) ==
    /\ Pending(runs[r])
    /\ runs[r].aborted
    /\ Throw(r, AbortErrorMessage, TRUE)

\* The connection fails while run r awaits a response, a body or a read.
NetworkFailed(r) ==
    /\ ~Rejecting
    /\ Pending(runs[r])
    /\ Throw(r, NetworkErrorMessage, FALSE)

\* fetch resolves with a response of the given status ("200": response.ok).
\* Lines 68, 96, 143: a non-2xx response has its body read as text; lines
\* 75, 103: a 2xx response is read as JSON; line 150: the stream is read.
FetchResolved(r, status) ==
    LET run == runs[r]
    IN  /\ ~Rejecting
        /\ run.pc = "fetch"
        /\ Step(r, [run EXCEPT !.answered = TRUE,
                               !.status = IF status = "200" THEN "" ELSE status,
                               !.pc = IF status # "200" THEN "text"
                                      ELSE IF run.at = "stream" THEN "read" ELSE "json"],
                Sess)

\* line 151: a 2xx stream response without a body
FetchResolvedNoBody(r) ==
    /\ ~Rejecting
    /\ runs[r].pc = "fetch"
    /\ runs[r].at = "stream"
    /\ Throw(r, NoBodyMessage, FALSE)

\* response.text() of a non-2xx response resolves: lines 69-72, 97-100, 144-147
TextResolved(r, errorBody) ==
    LET run == runs[r]
    IN  /\ ~Rejecting
        /\ run.pc = "text"
        /\ Throw(r, HttpErrorMessage(IF run.at = "search" THEN "Tavily API Error" ELSE "API Error",
                                     run.status, errorBody), FALSE)

\* response.json() rejects: the body of a 2xx response is not JSON
JsonRejected(r) ==
    /\ ~Rejecting
    /\ runs[r].pc = "json"
    /\ Throw(r, SyntaxErrorMessage, FALSE)

\* lines 247-350: the response of a round of the loop
ChatJsonResolved(r, response) ==
    LET run == runs[r]
        message == MessageOf(response)
        toolCalls == IF message.tool_calls.type = "array" THEN message.tool_calls.v ELSE <<>>
    IN  /\ ~Rejecting
        /\ run.at = "chat"
        /\ run.pc = "json"
        /\ IF message.type = "undefined"
           THEN Throw(r, EmptyResponseMessage, FALSE)
           ELSE IF Len(toolCalls) > 0
           THEN ContinueCalls(r,
                    [run EXCEPT !.calls = toolCalls,
                                !.messages = Append(@,
                                    AssistantMsg(extractTextContent(message.content), toolCalls))],
                    1, <<>>)
           ELSE Finish(r, run, Sess, extractTextContent(message.content))

\* lines 309-321: the search of call idx answered
SearchJsonResolved(r, raw) ==
    LET run == runs[r]
        toolCall == run.calls[run.idx]
        toolResult == NormalizeSearch(run.query, raw)
    IN  /\ ~Rejecting
        /\ run.at = "search"
        /\ run.pc = "json"
        /\ ContinueCalls(r,
               [run EXCEPT !.messages = Append(@, ToolMsg(toolCall.id, toolResult))],
               run.idx + 1,
               <<ToolEvent("success", toolCall.id, "search_web", run.query,
                           FoundMessage(Len(toolResult.results)))>>)

\* lines 382-390: the forced-final response
FinalJsonResolved(r, response) ==
    LET run == runs[r]
        message == MessageOf(response)
        finalContent == IF message.type = "undefined" THEN ""
                        ELSE extractTextContent(message.content)
    IN  /\ ~Rejecting
        /\ run.at = "final"
        /\ run.pc = "json"
        /\ IF finalContent # ""
           THEN Finish(r, run, Sess, finalContent)
           ELSE Step(r, [run EXCEPT !.at = "stream", !.pc = "fetch",
                                    !.streamRequests = @ + 1],
                     Send(Sess, StreamRequest(r)))

\* lines 157-183: a read delivers bytes
ReadResolved(r, value) ==
    LET run == runs[r]
        d == DecodeRead(run.buffer, value)
        S1 == onChunks(Sess, r, d.chunks)
    IN  /\ ~Rejecting
        /\ run.pc = "read"
        /\ run.reads < MaxReads
        /\ IF d.done
           THEN Finish(r, run, S1, "")
           ELSE Step(r, [run EXCEPT !.buffer = d.buffer, !.reads = @ + 1,
                                    !.received = @ \o value,
                                    !.text = @ \o JoinChunks(d.chunks)], S1)

\* lines 158, 186: the stream is closed
ReadDone(r) ==
    /\ ~Rejecting
    /\ runs[r].pc = "read"
    /\ Finish(r, runs[r], Sess, "")

Next ==
    \/ \E config \in Configs : runAnalysis(config)
    \/ reset
    \/ \E text \in RestoreTexts : restore(text)
    \/ Unmount
    \/ \E r \in DOMAIN runs : AbortRejected(r)
    \/ \E r \in DOMAIN runs : NetworkFailed(r)
    \/ \E r \in DOMAIN runs : \E status \in {"200"} \cup ErrorStatuses : FetchResolved(r, status)
    \/ \E r \in DOMAIN runs : FetchResolvedNoBody(r)
    \/ \E r \in DOMAIN runs : \E body \in ErrorBodies : TextResolved(r, body)
    \/ \E r \in DOMAIN runs : JsonRejected(r)
    \/ \E r \in DOMAIN runs : \E response \in ChatResponses(runs[r].round) : ChatJsonResolved(r, response)
    \/ \E r \in DOMAIN runs : \E raw \in SearchResponses : SearchJsonResolved(r, raw)
    \/ \E r \in DOMAIN runs : \E response \in ChatResponses(MAX_TOOL_ROUNDS) : FinalJsonResolved(r, response)
    \/ \E r \in DOMAIN runs : \E value \in StreamReads : ReadResolved(r, value)
    \/ \E r \in DOMAIN runs : ReadDone(r)

Spec == Init /\ [][Next]_vars

\* --------------------------------------------------- one analysis on its own
\* One analysis from its start to its end: runAnalysis is called while no run
\* has been started; the other operations of the hook and the tasks of the
\* run are those of Next.
AnalysisNext ==
    \/ runs = <<>> /\ \E config \in Configs : runAnalysis(config)
    \/ reset
    \/ \E text \in RestoreTexts : restore(text)
    \/ Unmount
    \/ \E r \in DOMAIN runs : AbortRejected(r)
    \/ \E r \in DOMAIN runs : NetworkFailed(r)
    \/ \E r \in DOMAIN runs : \E status \in {"200"} \cup ErrorStatuses : FetchResolved(r, status)
    \/ \E r \in DOMAIN runs : FetchResolvedNoBody(r)
    \/ \E r \in DOMAIN runs : \E body \in ErrorBodies : TextResolved(r, body)
    \/ \E r \in DOMAIN runs : JsonRejected(r)
    \/ \E r \in DOMAIN runs : \E response \in ChatResponses(runs[r].round) : ChatJsonResolved(r, response)
    \/ \E r \in DOMAIN runs : \E raw \in SearchResponses : SearchJsonResolved(r, raw)
    \/ \E r \in DOMAIN runs : \E response \in ChatResponses(MAX_TOOL_ROUNDS) : FinalJsonResolved(r, response)
    \/ \E r \in DOMAIN runs : \E value \in StreamReads : ReadResolved(r, value)
    \/ \E r \in DOMAIN runs : ReadDone(r)

AnalysisSpec == Init /\ [][AnalysisNext]_vars

\* ------------------------------------------- the stream decoder on its own
\* Response streams of the chat endpoint, as bytes, each with the deltas of
\* its frames before the terminal marker and whether it carries the marker.
\* StreamA: two frames and the marker, separated by blank lines.  StreamB:
\* CRLF, a payload that is not JSON, a comment line, an indented frame, a
\* frame without content, the marker and a frame after it.  StreamC: no
\* marker, and a last line the server never ended.
StreamA ==
    [bytes |-> "data: " \o HelloPayload \o "\n\n" \o "data: " \o WorldPayload \o "\n\n"
                   \o "data: [DONE]\n\n",
     chunks |-> <<"Hello", " world">>, marker |-> TRUE]
StreamB ==
    [bytes |-> "data: " \o HelloPayload \o "\r\n" \o "data: {\"choices\":\n" \o ": ping\n"
                   \o "  data: " \o WorldPayload \o "  \n" \o "data: " \o NoChoicePayload \o "\n"
                   \o "data: [DONE]\n" \o "data: " \o HelloPayload \o "\n",
     chunks |-> <<"Hello", " world">>, marker |-> TRUE]
StreamC ==
    [bytes |-> "data: " \o HelloPayload \o "\n" \o "data: " \o WorldPayload,
     chunks |-> <<"Hello">>, marker |-> FALSE]
Streams == {StreamA, StreamB, StreamC}

\* the streams that go on from what run r has received
Continuing(r) ==
    {stream \in Streams :
         /\ Len(stream.bytes) > Len(runs[r].received)
         /\ SubSeq(stream.bytes, 1, Len(runs[r].received)) = runs[r].received}

\* what the next read may deliver: any number of the bytes that follow
Pieces(r) ==
    UNION { {SubSeq(stream.bytes, Len(runs[r].received) + 1, n) :
                 n \in (Len(runs[r].received) + 1)..Len(stream.bytes)} :
            stream \in Continuing(r) }

\* One plain-streaming run; its stream arrives cut into reads at any place.
DecoderStart ==
    /\ runs = <<>>
    /\ runAnalysis([apiKey |-> "sk", tavilyApiKey |-> ""])

DecoderNext ==
    \/ DecoderStart
    \/ \E r \in DOMAIN runs : FetchResolved(r, "200")
    \/ \E r \in DOMAIN runs : \E value \in Pieces(r) : ReadResolved(r, value)
    \/ \E r \in DOMAIN runs :
           /\ \E stream \in Streams : stream.bytes = runs[r].received
           /\ ReadDone(r)

DecoderSpec == Init /\ [][DecoderNext]_vars


\* --------------------------------------------- the panel's segments alone
\* AIResultPanel, lines 1083-1084: the segments of the text shown and whether
\* the model is still inside a reasoning block.
segments == parseThinkBlocks(content)
isThinking == loading /\ Len(segments) > 0 /\ segments[Len(segments)].type = "think"

\* The texts a model answers with: up to MaxTokens pieces, each a letter, a
\* blank or one of the two tags, and the text of the documentation's example.
RECURSIVE TextsOf(_, _)
TextsOf(tokens, n) ==
    IF n = 0 THEN {""} ELSE {text \o token : text \in TextsOf(tokens, n - 1), token \in tokens}

ThinkTexts ==
    LET tokens == {"A", "B", " ", "<think>", "</think>"}
    IN  UNION {TextsOf(tokens, n) : n \in 1..MaxTokens} \cup {"A<think>B</think>C"}

\* One plain-streaming run whose stream holds one frame with the whole text.
SegmenterRead(r, text) ==
    /\ runs[r].reads = 0
    /\ ReadResolved(r, "data: " \o DeltaPayload(text) \o "\n")

SegmenterNext ==
    \/ DecoderStart
    \/ \E r \in DOMAIN runs : FetchResolved(r, "200")
    \/ \E r \in DOMAIN runs : \E text \in ThinkTexts : SegmenterRead(r, text)
    \/ \E r \in DOMAIN runs : ReadDone(r)

SegmenterSpec == Init /\ [][SegmenterNext]_vars


\* ================================================================ claims
\* the callbacks of kind cb that the task just ended invoked for run r
Fired(calls, r, cb) == {i \in DOMAIN calls : calls[i].run = r /\ calls[i].cb = cb}

\* run r was aborted while its first request was pending
AbortedEarly(run) == run.aborted /\ ~run.answered

\* a chat-completion exchange of the run is in flight and not cancelled
InFlight(run) == Pending(run) /\ ~run.aborted /\ run.at \in {"chat", "final", "stream"}

\* C1: a run aborted while its first network request is pending (no response
\* has arrived) has called neither done nor error, and no later task invokes
\* its chunk, done or error callback.
C1_CancellationSilence ==
    /\ [](\A r \in DOMAIN runs :
              AbortedEarly(runs[r]) => runs[r].nDone = 0 /\ runs[r].nErr = 0)
    /\ [][\A r \in DOMAIN runs :
              AbortedEarly(runs[r]) =>
                  /\ \A i \in DOMAIN fired' :
                         fired'[i].run = r => fired'[i].cb \notin {"chunk", "done", "error", "onComplete"}
                  /\ runs'[r].pc \in {"fetch", "cancelled"}]_vars

\* C1 witness: a run, aborted while its first request was pending, has ended
\* (its AbortError was swallowed).
C1_Witness ==
    \E r \in DOMAIN runs : AbortedEarly(runs[r]) /\ runs[r].pc = "cancelled"

\* C2 (as claimed): no task invokes the tool-event callback of a run whose
\* signal is aborted.
C2_NoToolEventAfterCancel ==
    [][\A i \in DOMAIN fired' :
           fired'[i].cb = "tool" => ~runs[fired'[i].run].aborted]_vars

\* C3 (as claimed): once runAnalysis has started a later run, no callback of
\* an earlier run changes content, loading, error or toolActivities.
C3_SupersededRunSilent ==
    [][(\E i \in DOMAIN fired' : fired'[i].run < Len(runs))
           => UNCHANGED <<content, loading, error, toolActivities>>]_vars

\* C4: at most one chat-completion exchange is in flight and not cancelled,
\* and a runAnalysis that starts a run leaves no earlier run in flight
\* un-aborted.
C4_AtMostOneInFlight ==
    /\ [](Cardinality({r \in DOMAIN runs : InFlight(runs[r])}) <= 1)
    /\ [][Len(runs') > Len(runs) =>
              /\ InFlight(runs'[Len(runs')])
              /\ \A r \in DOMAIN runs : Pending(runs'[r]) => runs'[r].aborted]_vars

\* C4 witness: a second run is in flight while the first, aborted by the
\* second runAnalysis, has not yet seen its rejection.
C4_Witness ==
    /\ Len(runs) = 2
    /\ Pending(runs[1]) /\ runs[1].aborted
    /\ InFlight(runs[2])

\* C5: a run sends at most 3 requests that declare the tool, the forced-final
\* request only after exactly 3 of them and only once, the fallback stream
\* request of a tool run only after the forced-final one and only once; the
\* round counter never decreases and every tool-declaring request after the
\* first raises it.
C5_RoundBound ==
    /\ [](\A r \in DOMAIN runs :
              LET run == runs[r]
              IN  /\ run.toolRequests <= 3
                  /\ run.finalRequests <= 1
                  /\ run.streamRequests <= 1
                  /\ run.at \in {"chat", "search"} =>
                         /\ run.toolRequests = run.round + 1
                         /\ run.finalRequests = 0 /\ run.streamRequests = 0
                  /\ run.at = "final" =>
                         run.toolRequests = 3 /\ run.finalRequests = 1 /\ run.streamRequests = 0
                  /\ (run.at = "stream" /\ run.tool) =>
                         run.toolRequests = 3 /\ run.finalRequests = 1 /\ run.streamRequests = 1)
    /\ [][\A r \in DOMAIN runs :
              LET old == runs[r]
                  new == runs'[r]
              IN  /\ ~Pending(old) => new = old
                  /\ Pending(new) =>
                         /\ new.round >= old.round
                         /\ new.toolRequests \in {old.toolRequests, old.toolRequests + 1}
                         /\ new.toolRequests > old.toolRequests => new.round = old.round + 1
                         /\ new.finalRequests >= old.finalRequests
                         /\ new.streamRequests >= old.streamRequests]_vars

\* C5 witness: after three rounds of tool calls and a forced-final response
\* without text, the run awaits the fallback stream.
C5_Witness ==
    \E r \in DOMAIN runs :
        /\ runs[r].tool /\ runs[r].at = "stream" /\ runs[r].pc = "read"
        /\ runs[r].toolRequests = 3 /\ runs[r].finalRequests = 1


\* C6 (as claimed): once the view is unmounted, no task invokes the done
\* callback and none hands a text to onComplete (which adds the history
\* entry).
C6_TeardownOnUnmount ==
    [][~mounted => \A i \in DOMAIN fired' : fired'[i].cb \notin {"done", "onComplete"}]_vars

\* the text the chunk callbacks among `calls` carry, in order
RECURSIVE ChunkText(_)
ChunkText(calls) ==
    IF calls = <<>> THEN ""
    ELSE (IF Head(calls).cb = "chunk" THEN Head(calls).arg ELSE "") \o ChunkText(Tail(calls))

\* C7 (as claimed): when the done callback of a run fires, onComplete is
\* invoked (once, with the text that run delivered to the chunk callback) if
\* that text is not empty, and is not invoked if it is empty; no other task
\* invokes onComplete.
C7_OnCompleteOncePerSuccess ==
    [][\A r \in DOMAIN runs :
           LET text == runs[r].text \o ChunkText(fired')
               notified == Fired(fired', r, "onComplete")
           IN  IF Fired(fired', r, "done") # {}
               THEN IF text # ""
                    THEN /\ Cardinality(notified) = 1
                         /\ \A i \in notified : fired'[i].arg = text
                    ELSE notified = {}
               ELSE notified = {}]_vars

\* C8: done and error exclude each other and each fires at most once per
\* run; a run ends as failed exactly when its error callback has fired once,
\* as done exactly when its done callback has fired once; a task fires them
\* as the counts say, and a run that has ended stays as it is (it sends no
\* further request).
C8_DoneErrorExclusive ==
    /\ [](\A r \in DOMAIN runs :
              /\ runs[r].nDone + runs[r].nErr <= 1
              /\ runs[r].pc = "failed" <=> runs[r].nErr = 1
              /\ runs[r].pc = "done" <=> runs[r].nDone = 1
              /\ runs[r].pc = "cancelled" => runs[r].aborted)
    /\ [][\A r \in DOMAIN runs :
              /\ Cardinality(Fired(fired', r, "done")) = runs'[r].nDone - runs[r].nDone
              /\ Cardinality(Fired(fired', r, "error")) = runs'[r].nErr - runs[r].nErr
              /\ ~Pending(runs[r]) => runs'[r] = runs[r]]_vars

\* C8 witness: a run has failed (a non-2xx chat response, a missing message
\* or a failed search) and its error callback has fired once.
C8_Witness ==
    \E r \in DOMAIN runs :
        /\ runs[r].pc = "failed" /\ runs[r].nErr = 1 /\ runs[r].answered
        /\ Fired(fired, r, "error") # {}

\* the connection failed in the task just ended
NetworkFailure(calls) ==
    \E i \in DOMAIN calls : calls[i].cb = "error" /\ calls[i].arg = NetworkErrorMessage

\* C9: when the body of a non-2xx search response has been read (the run not
\* cancelled, the connection not lost meanwhile), the task
\* reports an 'error' tool event for the call searched, then calls onError
\* with a message that contains the status, and nothing else; the run has
\* failed: no done, no event for a later call of the round, no further
\* request.
C9_FatalSearchFailure ==
    [][\A r \in DOMAIN runs :
           LET old == runs[r]
           IN  (/\ old.at = "search" /\ old.pc = "text" /\ ~old.aborted
                /\ runs'[r] # old /\ ~runs'[r].aborted
                /\ ~NetworkFailure(fired'))
               => /\ Len(fired') = 2
                  /\ fired'[1].run = r /\ fired'[1].cb = "tool"
                  /\ fired'[1].arg.phase = "error"
                  /\ fired'[1].arg.callId = old.calls[old.idx].id
                  /\ Contains(fired'[1].arg.message, old.status)
                  /\ fired'[2].run = r /\ fired'[2].cb = "error"
                  /\ Contains(fired'[2].arg, old.status)
                  /\ runs'[r].pc = "failed" /\ runs'[r].nDone = 0
                  /\ mounted =>
                         \E k \in DOMAIN toolActivities' :
                             /\ toolActivities'[k].callId = old.calls[old.idx].id
                             /\ toolActivities'[k].status = "error"]_vars

\* C9 witness: a search answered 500 while a later call of the round was
\* still to run; the error callback has fired with the status.
C9_Witness ==
    /\ Len(fired) = 2
    /\ fired[1].cb = "tool" /\ fired[1].arg.phase = "error"
    /\ fired[1].arg.callId = CallId(0, 2)
    /\ fired[2].cb = "error"
    /\ StartsWith(fired[2].arg, "Tavily API Error 500")
    /\ runs[fired[2].run].pc = "failed"

\* what C10 calls a call that cannot be run: not search_web, or arguments
\* that are not JSON with a non-empty string query
Unrunnable(toolCall) ==
    \/ toolCall.name # "search_web"
    \/ LET args == ParseArguments(toolCall.arguments)
       IN  args.threw \/ args.query.type # "string" \/ args.query.v = ""

IsErrorEntry(entry) == entry.role = "tool" /\ "error" \in DOMAIN entry.content

\* the calls of the assistant entry at position p that the loop has passed
Passed(run, p) ==
    LET later == {q \in (p + 1)..Len(run.messages) : run.messages[q].role = "assistant"}
        calls == run.messages[p].tool_calls
    IN  IF later = {} /\ run.at = "search" THEN run.idx - 1 ELSE Len(calls)

\* C10: every call the loop has passed has, at its place after the assistant
\* entry, one tool entry with its id, which carries a structured error if the
\* call cannot be run; the search awaited is for a call that can be run; the
\* task that answers a call with a structured error reports an 'error' tool
\* event for it, does not call onError and leaves the run in flight, at the
\* next search or the next chat request.
C10_RecoverableToolErrors ==
    /\ [](\A r \in DOMAIN runs :
              LET run == runs[r]
              IN  /\ \A p \in DOMAIN run.messages :
                         run.messages[p].role = "assistant" =>
                             \A j \in 1..Passed(run, p) :
                                 /\ p + j \in DOMAIN run.messages
                                 /\ LET toolCall == run.messages[p].tool_calls[j]
                                        entry == run.messages[p + j]
                                    IN  /\ entry.role = "tool"
                                        /\ entry.tool_call_id = toolCall.id
                                        /\ Unrunnable(toolCall) => IsErrorEntry(entry)
                  /\ (run.at = "search" /\ Pending(run)) => ~Unrunnable(run.calls[run.idx]))
    /\ [][\A r \in DOMAIN runs :
              LET old == runs[r]
                  new == runs'[r]
              IN  \A q \in (Len(old.messages) + 1)..Len(new.messages) :
                      IsErrorEntry(new.messages[q]) =>
                          /\ \E i \in Fired(fired', r, "tool") :
                                 /\ fired'[i].arg.phase = "error"
                                 /\ fired'[i].arg.callId = new.messages[q].tool_call_id
                                 /\ fired'[i].arg.message = new.messages[q].content.error
                          /\ Fired(fired', r, "error") = {}
                          /\ new.nErr = 0
                          /\ Pending(new) /\ new.pc = "fetch"
                          /\ new.at \in {"search", "chat", "final"}]_vars

\* C10 witness: a round whose calls were all answered with structured errors
\* is over and the next chat request is in flight.
C10_Witness ==
    \E r \in DOMAIN runs :
        /\ runs[r].at = "chat" /\ runs[r].round = 1 /\ runs[r].pc = "fetch"
        /\ Len(runs[r].messages) = 6
        /\ \A q \in 4..6 : IsErrorEntry(runs[r].messages[q])
        /\ \A i \in 1..3 : fired[i].cb = "tool" /\ fired[i].arg.phase = "error"


\* the tool events among `calls` with the given callId
EventsFor(calls, callId) ==
    {i \in DOMAIN calls : calls[i].cb = "tool" /\ calls[i].arg.callId = callId}

\* C11: the task that leaves the loop after a third round with tool calls
\* reports the round-limit 'info' event once, as its last callback, and sends
\* one request: not streaming, no tool declared, the transcript followed by
\* the user instruction.  A forced-final response with text ends the run with
\* that text as one chunk and done; one without text makes the run send one
\* streaming request that carries only the prompt, after which the run sends
\* nothing more and ends as a plain-streaming run ends.
C11_ForcedFinalPath ==
    /\ [](\A r \in DOMAIN runs :
              /\ runs[r].at = "final" =>
                     runs[r].toolRequests = 3 /\ runs[r].finalRequests = 1
                         /\ runs[r].streamRequests = 0
              /\ (runs[r].tool /\ runs[r].at = "stream") =>
                     runs[r].toolRequests = 3 /\ runs[r].finalRequests = 1
                         /\ runs[r].streamRequests = 1)
    /\ [][\A r \in DOMAIN runs :
              LET old == runs[r]
                  new == runs'[r]
              IN  /\ (old.at # "final" /\ new.at = "final") =>
                         /\ old.round = 2 /\ old.toolRequests = 3
                         /\ Cardinality(EventsFor(fired', "tool-round-limit")) = 1
                         /\ fired'[Len(fired')].cb = "tool"
                         /\ fired'[Len(fired')].arg.callId = "tool-round-limit"
                         /\ fired'[Len(fired')].arg.phase = "info"
                         /\ Len(sent') = 1
                         /\ sent'[1].run = r /\ sent'[1].to = "chat"
                         /\ ~sent'[1].stream /\ ~sent'[1].tools
                         /\ sent'[1].messages =
                                Append(new.messages,
                                       [role |-> "user", content |-> FinalInstruction])
                         /\ SubSeq(new.messages, 1, Len(old.messages)) = old.messages
                  /\ \A response \in ChatResponses(MAX_TOOL_ROUNDS) :
                         FinalJsonResolved(r, response) =>
                             LET message == MessageOf(response)
                                 text == IF message.type = "undefined" THEN ""
                                         ELSE extractTextContent(message.content)
                             IN  IF text # ""
                                 THEN /\ Len(fired') >= 2
                                      /\ fired'[1] = [run |-> r, cb |-> "chunk", arg |-> text]
                                      /\ fired'[2].cb = "done"
                                      /\ Fired(fired', r, "chunk") = {1}
                                      /\ new.pc = "done" /\ sent' = <<>>
                                 ELSE /\ fired' = <<>>
                                      /\ Len(sent') = 1
                                      /\ sent'[1].run = r /\ sent'[1].to = "chat"
                                      /\ sent'[1].stream /\ ~sent'[1].tools
                                      /\ sent'[1].messages =
                                             <<[role |-> "user", content |-> Prompt]>>
                                      /\ new.at = "stream" /\ new.pc = "fetch"
                  /\ old.at = "stream" =>
                         /\ \A i \in DOMAIN sent' : sent'[i].run # r
                         /\ new.at \in {"stream", ""}]_vars

\* C11 witness: the forced-final response carried no text and the run has
\* sent its streaming request.
C11_Witness ==
    \E r \in DOMAIN runs :
        /\ runs[r].tool /\ runs[r].at = "stream" /\ runs[r].pc = "fetch"
        /\ sent = <<StreamRequest(r)>>
        /\ fired = <<>>


\* C12 (as claimed): when the body of the forced-final response is not JSON,
\* the error callback is not invoked and the run sends the streaming request.
C12_UnparseableFinalFallsBack ==
    [][\A r \in DOMAIN runs :
           (runs[r].at = "final" /\ JsonRejected(r)) =>
               /\ Fired(fired', r, "error") = {}
               /\ runs'[r].pc # "failed"
               /\ sent' = <<StreamRequest(r)>>]_vars

\* C13 (as claimed): when the current run of a mounted session ends without
\* having been cancelled, the session is left not loading and with a content
\* that is not empty or an error message.
C13_NoSilentFailure ==
    [][\A r \in DOMAIN runs :
           (/\ mounted /\ r = abortRef
            /\ Pending(runs[r]) /\ runs'[r].pc \in {"done", "failed"})
           => /\ loading' = FALSE
              /\ content' # "" \/ error' # Null]_vars

\* the text of a response stream: the deltas of its complete lines, up to the
\* terminal marker
StreamText(stream) ==
    LET lines == SplitLines(stream, 1)
    IN  JoinChunks(DecodeLines(SubSeq(lines, 1, Len(lines) - 1), <<>>).chunks)

\* the task that just ended called the done callback of run r
Completes(r) == Pending(runs[r]) /\ runs'[r].pc = "done"

\* C14: a run started without a search key (none, or white space only) sends
\* one streaming chat request and never another request; the text it has
\* delivered through the chunk callback, in order, is the text of the stream
\* received so far, and when it completes (terminal marker or end of stream)
\* it has delivered the text of the whole stream before the marker and calls
\* done once; each chunk is appended to the session's text.
C14_PlainStreaming ==
    /\ [](\A r \in DOMAIN runs :
              (runs[r].at = "stream" /\ ~runs[r].tool) =>
                  /\ runs[r].streamRequests = 1
                  /\ runs[r].toolRequests = 0 /\ runs[r].finalRequests = 0
                  /\ runs[r].text = StreamText(runs[r].received))
    /\ [][/\ \A config \in Configs :
                 (runAnalysis(config) /\ config.apiKey # "" /\ config.tavilyApiKey \in {"", " "})
                 => /\ sent' = <<[run |-> Len(runs'), to |-> "chat", stream |-> TRUE,
                                  tools |-> FALSE, query |-> "",
                                  messages |-> <<[role |-> "user", content |-> Prompt]>>]>>
                    /\ ~runs'[Len(runs')].tool /\ runs'[Len(runs')].at = "stream"
          /\ \A r \in DOMAIN runs :
                 (runs[r].at = "stream" /\ ~runs[r].tool) =>
                     /\ \A i \in DOMAIN sent' : sent'[i].run # r
                     /\ Completes(r) =>
                            /\ Cardinality(Fired(fired', r, "done")) = 1
                            /\ \A value \in StreamReads :
                                   ReadResolved(r, value) =>
                                       runs[r].text \o ChunkText(fired')
                                           = StreamText(runs[r].received \o value)
                            /\ ReadDone(r) => ChunkText(fired') = ""
                     /\ (mounted /\ Fired(fired', r, "chunk") # {}) =>
                            content' = content \o ChunkText(fired')]_vars

\* C14 witness: "Hello" then " world" then the terminal marker: the run has
\* completed with the text "Hello world".
C14_Witness ==
    \E r \in DOMAIN runs :
        /\ runs[r].pc = "done" /\ mounted /\ r = abortRef
        /\ content = "Hello world"
        /\ fired = <<[run |-> r, cb |-> "chunk", arg |-> " world"],
                     [run |-> r, cb |-> "done", arg |-> ""],
                     [run |-> r, cb |-> "onComplete", arg |-> "Hello world"]>>


\* the responses of the tool-assisted success scenario
RoundOneResponse ==
    [choices |-> <<[message |-> ChatMessage(JNull, JArr(<<GoodCall(CallId(0, 1))>>))]>>]
FinalAnswerResponse ==
    [choices |-> <<[message |-> ChatMessage(JStr("Final answer"), JUndef)]>>]

\* the tool events among `calls`, as <<phase, tool, query>>
RECURSIVE ToolEventsOf(_)
ToolEventsOf(calls) ==
    IF calls = <<>> THEN <<>>
    ELSE (IF Head(calls).cb = "tool"
          THEN <<<<Head(calls).arg.phase, Head(calls).arg.tool, Head(calls).arg.query>>>>
          ELSE <<>>) \o ToolEventsOf(Tail(calls))

\* run r is in round 1 of the scenario, its one search in flight
SearchingX(run) ==
    /\ run.at = "search" /\ run.pc = "json" /\ run.round = 0
    /\ run.calls = <<GoodCall(CallId(0, 1))>>

\* run r is in round 2 of the scenario
AnsweringAfterX(run) ==
    /\ run.at = "chat" /\ run.pc = "json" /\ run.round = 1
    /\ Len(run.messages) = 4
    /\ run.messages[3].tool_calls = <<GoodCall(CallId(0, 1))>>

\* what the task of a response without tool calls does, with `chunks` the
\* chunks the statement expects for the text of the response
EndsWithText(r, text, chunks) ==
    /\ ToolEventsOf(fired') = <<>>
    /\ Fired(fired', r, "error") = {}
    /\ Cardinality(Fired(fired', r, "done")) = 1
    /\ Cardinality(Fired(fired', r, "chunk")) = Len(chunks)
    /\ \A i \in DOMAIN chunks : fired'[i] = [run |-> r, cb |-> "chunk", arg |-> chunks[i]]
    /\ fired'[Len(chunks) + 1].cb = "done"
    /\ runs'[r].pc = "done"
    /\ sent' = <<>>

C16_ConfigurationError ==
    [][\A config \in Configs :
           (config.apiKey = "" /\ runAnalysis(config)) =>
               /\ error' = "Please configure your API Key in Settings first."
               /\ error' # Null
               /\ started' = TRUE
               /\ sent' = <<>> /\ fired' = <<>>
               /\ runs' = runs /\ abortRef' = abortRef
               /\ loading' = loading
               /\ UNCHANGED <<content, contentRef, restored, toolActivities>>]_vars

\* C16 witness: runAnalysis was called without a key in a fresh session.
C16_Witness ==
    /\ error = ConfigErrorMessage /\ started /\ ~loading /\ mounted
    /\ runs = <<>> /\ sent = <<>>

\* C17: a step that starts a run (runAnalysis with an API key) leaves the
\* session with empty text, no error, no activities, restored = FALSE,
\* loading = TRUE and started = TRUE, and no callback has fired in it; the new
\* run has its first request in flight.
C17_StartClearsState ==
    [][Len(runs') > Len(runs) =>
           /\ content' = "" /\ contentRef' = ""
           /\ error' = Null
           /\ toolActivities' = <<>>
           /\ restored' = FALSE /\ loading' = TRUE /\ started' = TRUE
           /\ fired' = <<>>
           /\ abortRef' = Len(runs')
           /\ runs'[Len(runs')].pc = "fetch" /\ ~runs'[Len(runs')].answered]_vars

\* C17 witness: a second run was just started in a session whose first run
\* had finished.
C17_Witness ==
    /\ Len(runs) = 2 /\ runs[1].pc \in {"done", "failed"}
    /\ runs[2].pc = "fetch" /\ ~runs[2].answered /\ ~runs[2].aborted
    /\ content = "" /\ error = Null /\ toolActivities = <<>>
    /\ loading /\ started /\ ~restored /\ mounted

\* C18: restore(text) sends no request and leaves the session with
\* content = text, loading = FALSE, started = TRUE, restored = TRUE, no
\* error and no activities; it touches no run.
C18_Restore ==
    [][\A text \in RestoreTexts :
           restore(text) =>
               /\ content' = text
               /\ loading' = FALSE /\ started' = TRUE /\ restored' = TRUE
               /\ error' = Null /\ toolActivities' = <<>>
               /\ sent' = <<>> /\ fired' = <<>>
               /\ runs' = runs]_vars

\* C18 witness: restore was called in a session that had started a run.
C18_Witness ==
    /\ restored /\ started /\ ~loading /\ error = Null /\ mounted
    /\ content = "Cached content" /\ toolActivities = <<>>
    /\ Len(runs) >= 1 /\ fired = <<>> /\ sent = <<>>
    /\ runs[Len(runs)].pc = "failed"

\* C19 (as claimed): after reset, and until runAnalysis or restore is called
\* (started is FALSE exactly then), a mounted session has its initial values,
\* and no run that reset aborted is left unaborted.
C19_ResetStaysInitial ==
    (mounted /\ ~started) =>
        /\ content = "" /\ ~loading /\ error = Null /\ ~restored
        /\ toolActivities = <<>>
        /\ \A r \in DOMAIN runs : Pending(runs[r]) => runs[r].aborted

\* C20: the activities never hold two entries with the same callId; a task
\* either removes all entries (runAnalysis, restore, reset, unmount) or keeps
\* every entry at its place with its callId and appends one entry for each
\* new callId among its tool events, in the order of their first events; the
\* entry of a callId has the status of the last event for it.
C20_ActivitiesKeyedByCallId ==
    /\ [](\A i, j \in DOMAIN toolActivities :
              toolActivities[i].callId = toolActivities[j].callId => i = j)
    /\ [][\/ toolActivities' = <<>> /\ fired' = <<>>
          \/ /\ Len(toolActivities') >= Len(toolActivities)
             /\ \A i \in DOMAIN toolActivities :
                    toolActivities'[i].callId = toolActivities[i].callId
             /\ mounted =>
                    /\ \A k \in DOMAIN fired' :
                           fired'[k].cb = "tool" =>
                               \E i \in DOMAIN toolActivities' :
                                   /\ toolActivities'[i].callId = fired'[k].arg.callId
                                   /\ (\A m \in (k + 1)..Len(fired') :
                                           fired'[m].cb = "tool" =>
                                               fired'[m].arg.callId # fired'[k].arg.callId)
                                      => toolActivities'[i].status = NextStatus(fired'[k].arg.phase)
                    /\ \A i \in (Len(toolActivities) + 1)..Len(toolActivities') :
                           EventsFor(fired', toolActivities'[i].callId) # {}
                    /\ \A i, j \in (Len(toolActivities) + 1)..Len(toolActivities') :
                           i < j =>
                               \E k \in EventsFor(fired', toolActivities'[i].callId) :
                                   \A m \in EventsFor(fired', toolActivities'[j].callId) : k < m]_vars

\* C20 witness: the task of a search result has updated the entry of the
\* call in place (running to success) and appended the round's info entry.
C20_Witness ==
    /\ mounted /\ Len(toolActivities) = 2 /\ Len(fired) = 2
    /\ fired[1].cb = "tool" /\ fired[1].arg.phase = "success"
    /\ toolActivities[1].callId = fired[1].arg.callId
    /\ toolActivities[1].status = "success"
    /\ toolActivities[2].callId = fired[2].arg.callId


\* the tool calls of the round run r is in, across a task: those being
\* processed before it, or those of the assistant entry the task appended
RoundCalls(old, new) ==
    IF old.calls # <<>> THEN old.calls
    ELSE IF new.calls # <<>> THEN new.calls
    ELSE LET added == {q \in (Len(old.messages) + 1)..Len(new.messages) :
                           new.messages[q].role = "assistant"}
         IN  IF added = {} THEN <<>>
             ELSE new.messages[CHOOSE q \in added : TRUE].tool_calls

\* the events of the task for the calls of run r (not the 'info' events)
CallEvents(calls, r) ==
    {k \in DOMAIN calls : calls[k].run = r /\ calls[k].cb = "tool" /\ calls[k].arg.phase # "info"}

\* C21: the events of a task are for calls of the current round, one event
\* per call and in the order of the calls in the response.  A 'start' event
\* is the last event of its task, which then awaits the one search request it
\* sent for that call; 'success' and an execution 'error' come first in the
\* next task of the run, for the call searched (whose 'start' was that
\* earlier event), and every other event of that task is for a later call.
\* A task sends at most one search request, and a run that awaited a search
\* sends the next one only with the result of the first in the transcript.
C21_ToolEventOrdering ==
    [][\A r \in DOMAIN runs :
           LET old == runs[r]
               new == runs'[r]
               list == RoundCalls(old, new)
               ev == CallEvents(fired', r)
               Pos(k) == CHOOSE j \in DOMAIN list : list[j].id = fired'[k].arg.callId
               searches == {i \in DOMAIN sent' : sent'[i].run = r /\ sent'[i].to = "search"}
           IN  /\ \A k \in ev : \E j \in DOMAIN list : list[j].id = fired'[k].arg.callId
               /\ \A k, m \in ev : k < m => Pos(k) < Pos(m)
               /\ \A k \in ev :
                      /\ fired'[k].arg.phase = "start" =>
                             /\ k = Len(fired')
                             /\ new.at = "search" /\ new.pc = "fetch" /\ new.idx = Pos(k)
                             /\ sent' = <<SearchRequest(r, fired'[k].arg.query)>>
                      /\ fired'[k].arg.phase = "success" =>
                             /\ old.at = "search" /\ old.idx = Pos(k)
                             /\ new.messages[Len(old.messages) + 1].tool_call_id
                                    = fired'[k].arg.callId
                      /\ (/\ fired'[k].arg.phase = "error"
                          /\ fired'[k].arg.message \notin {UnsupportedMessage, MissingQueryMessage}) =>
                             /\ old.at = "search" /\ old.idx = Pos(k)
                             /\ ~Pending(new)
                      /\ old.at = "search" =>
                             /\ Pos(k) >= old.idx
                             /\ Pos(k) = old.idx =>
                                    k = 1 /\ fired'[k].arg.phase \in {"success", "error"}
               /\ (new.at = "search" /\ (old.at # "search" \/ old.idx # new.idx)) =>
                      \E k \in ev : fired'[k].arg.phase = "start" /\ Pos(k) = new.idx
               /\ Cardinality(searches) <= 1
               /\ (old.at = "search" /\ searches # {}) =>
                      \E k \in ev : fired'[k].arg.phase = "success" /\ Pos(k) = old.idx]_vars

\* C21 witness: the search of the second call of a round has answered and
\* the search of the third call has started.
C21_Witness ==
    /\ Len(fired) = 2
    /\ fired[1].cb = "tool" /\ fired[1].arg.phase = "success"
    /\ fired[1].arg.callId = CallId(0, 2)
    /\ fired[2].cb = "tool" /\ fired[2].arg.phase = "start"
    /\ fired[2].arg.callId = CallId(0, 3)
    /\ Len(sent) = 1 /\ sent[1].to = "search"


\* the chunk callbacks among `calls`, as the sequence of their texts
RECURSIVE ChunkSeq(_)
ChunkSeq(calls) ==
    IF calls = <<>> THEN <<>>
    ELSE (IF Head(calls).cb = "chunk" THEN <<Head(calls).arg>> ELSE <<>>)
             \o ChunkSeq(Tail(calls))

\* the whole of `bytes` decoded as one read: the deltas, the marker seen
Whole(bytes) ==
    LET lines == SplitLines(bytes, 1)
    IN  DecodeLines(SubSeq(lines, 1, Len(lines) - 1), <<>>)

\* ... for the first n bytes of every stream
WholeOf ==
    [stream \in Streams |->
         [n \in 0..Len(stream.bytes) |-> Whole(SubSeq(stream.bytes, 1, n))]]

\* ... for `received`, the bytes a run has received of its stream
WholeAt(received) ==
    LET stream == CHOOSE s \in Streams :
                      /\ Len(received) <= Len(s.bytes)
                      /\ SubSeq(s.bytes, 1, Len(received)) = received
    IN  WholeOf[stream][Len(received)]

\* C22: however the bytes of a stream are cut into reads, the text a run has
\* accumulated is that of the bytes received so far decoded as one read;
\* whatever the next read brings, the decoder finds in it the deltas that the
\* bytes received with it, decoded as one read, add to those of the bytes
\* received before, and the terminal marker exactly when that decode finds
\* it; a read delivers those deltas to the chunk callback, and done fires in
\* the read that completes the line of the terminal marker (or when the
\* stream closes), not before.
C22_ChunkBoundaryInvariance ==
    /\ [](\A r \in DOMAIN runs :
              (runs[r].at = "stream" /\ Pending(runs[r])) =>
                  /\ ~WholeAt(runs[r].received).done
                  /\ runs[r].text = JoinChunks(WholeAt(runs[r].received).chunks)
                  /\ runs[r].pc = "read" =>
                         \A value \in Pieces(r) :
                             LET d == DecodeRead(runs[r].buffer, value)
                                 after == WholeAt(runs[r].received \o value)
                             IN  /\ d.done <=> after.done
                                 /\ WholeAt(runs[r].received).chunks \o d.chunks = after.chunks)
    /\ [][\A r \in DOMAIN runs :
              LET before == WholeAt(runs[r].received).chunks
                  Delivered(after) ==
                      /\ ChunkSeq(fired') = SubSeq(after.chunks, Len(before) + 1, Len(after.chunks))
                      /\ SubSeq(after.chunks, 1, Len(before)) = before
                      /\ Fired(fired', r, "done") # {} <=> after.done
              IN  /\ (runs[r].pc = "read" /\ runs'[r].pc = "read" /\ runs'[r] # runs[r]) =>
                         /\ Len(runs'[r].received) > Len(runs[r].received)
                         /\ SubSeq(runs'[r].received, 1, Len(runs[r].received)) = runs[r].received
                         /\ Delivered(WholeAt(runs'[r].received))
                         /\ ~WholeAt(runs'[r].received).done
                  /\ (runs[r].pc = "read" /\ Completes(r)) =>
                         \/ \E value \in Pieces(r) :
                                /\ WholeAt(runs[r].received \o value).done
                                /\ Delivered(WholeAt(runs[r].received \o value))
                         \/ /\ \E stream \in Streams : stream.bytes = runs[r].received
                            /\ ChunkSeq(fired') = <<>>
                            /\ Fired(fired', r, "done") # {}]_vars

\* C22 witness: the first read ended inside the line of the first frame; the
\* second read has delivered that frame and the next one.
C22_Witness ==
    \E r \in DOMAIN runs :
        /\ runs[r].reads = 2 /\ Pending(runs[r])
        /\ fired = <<[run |-> r, cb |-> "chunk", arg |-> "Hello"],
                     [run |-> r, cb |-> "chunk", arg |-> " world"]>>

\* C23: a run that reads one of the streams never calls the error callback;
\* when it ends it has called done once and has delivered the deltas of the
\* stream's frames before the terminal marker: the payload that is not JSON
\* is left out and the frame after it is delivered, the frame after the
\* marker is not; a stream that closes without the marker ends the run with
\* done as well.  A run that has ended calls nothing more.
C23_TerminationAndBadFrames ==
    /\ [](\A r \in DOMAIN runs :
              runs[r].pc = "read" =>
                  \A stream \in Continuing(r) :
                      \A n \in (Len(runs[r].received) + 1)..Len(stream.bytes) :
                          LET d == DecodeRead(runs[r].buffer,
                                              SubSeq(stream.bytes, Len(runs[r].received) + 1, n))
                          IN  d.done =>
                                  /\ stream.marker
                                  /\ runs[r].text \o JoinChunks(d.chunks) = JoinChunks(stream.chunks))
    /\ [][\A r \in DOMAIN runs :
              /\ Fired(fired', r, "error") = {}
              /\ runs'[r].pc # "failed"
              /\ ~Pending(runs[r]) =>
                     /\ \A i \in DOMAIN fired' : fired'[i].run # r
                     /\ runs'[r] = runs[r]
              /\ Completes(r) =>
                     /\ Cardinality(Fired(fired', r, "done")) = 1
                     /\ runs'[r].nDone = 1
                     /\ \A i \in Fired(fired', r, "chunk") : \A j \in Fired(fired', r, "done") : i < j
                     /\ \E stream \in Streams :
                            /\ runs[r].text \o ChunkText(fired') = JoinChunks(stream.chunks)
                            /\ \/ stream.marker /\ stream \in Continuing(r)
                               \/ /\ ~stream.marker /\ stream.bytes = runs[r].received
                                  /\ ChunkSeq(fired') = <<>>]_vars

\* C23 witness: the stream with the bad payload and a frame after the marker
\* was read in one read; the run has ended with "Hello world".
C23_Witness ==
    \E r \in DOMAIN runs :
        /\ runs[r].pc = "done" /\ runs[r].nDone = 1
        /\ content = "Hello world"
        /\ fired = <<[run |-> r, cb |-> "chunk", arg |-> "Hello"],
                     [run |-> r, cb |-> "chunk", arg |-> " world"],
                     [run |-> r, cb |-> "done", arg |-> ""],
                     [run |-> r, cb |-> "onComplete", arg |-> "Hello world"]>>

\* ------------------------------------------------- the panel's tables alone
\* The lines a model answers with: a header or row of two cells, a row of
\* three, a separator row, a row of one cell, a line of prose.
TableLines == {"|A|B|", "|1|2|3|", "|---|---|", "|A|", "note"}

\* up to n such lines, each joined to the one before by a line feed or, run
\* together, by a blank
RECURSIVE TableTextsOf(_)
TableTextsOf(n) ==
    IF n = 1 THEN TableLines
    ELSE {text \o joint \o line :
              text \in TableTextsOf(n - 1), joint \in {"\n", " "}, line \in TableLines}

TableTexts == UNION {TableTextsOf(n) : n \in 1..MaxRows} \cup {"|A|B| |1|2|"}

\* AIResultPanel, lines 1195-1199: what is handed to the Markdown renderer
\* for a text without reasoning blocks
shown == normalizeMarkdownTables(content)

\* A stored analysis is put back on the screen of a panel just opened.
TableNext == \E text \in TableTexts : ~restored /\ restore(text)

TableSpec == Init /\ [][TableNext]_vars


\* ------------------------------------------------- claims on the segments
\* where a tag starts in a text, and a set of positions in ascending order
Positions(text, tag) ==
    {i \in 1..(Len(text) - Len(tag) + 1) : SubSeq(text, i, i + Len(tag) - 1) = tag}

RECURSIVE Ascending(_)
Ascending(S) ==
    IF S = {} THEN <<>>
    ELSE LET least == CHOOSE i \in S : \A j \in S : i <= j
         IN  <<least>> \o Ascending(S \ {least})

Opens == Ascending(Positions(content, "<think>"))
Closes == Ascending(Positions(content, "</think>"))

\* a stretch of visible text: one text segment, none when it is blank
Visible(text) == IF Trim(text) = "" THEN <<>> ELSE <<Segment("text", text)>>

\* C24 as claimed: a text without the opening tag gives one text segment that
\* holds the trimmed text, and no segment when the text is blank.
C24_TrimmedTextSegment ==
    Opens = <<>> =>
        segments = IF Trim(content) = "" THEN <<>> ELSE <<Segment("text", Trim(content))>>

\* C24: a text without the opening tag gives exactly one text segment, which
\* holds the text as it is, white space at its ends included, and no segment
\* when the text is empty or blank.
C24_WholeTextSegment ==
    Opens = <<>> =>
        /\ Trim(content) = "" => segments = <<>>
        /\ Trim(content) # "" =>
               /\ Len(segments) = 1
               /\ segments[1].type = "text"
               /\ segments[1].content = content

\* C24 witness: a text with a blank before and after its letter is shown as
\* one text segment that keeps the blanks.
C24_Witness ==
    /\ content = " A "
    /\ loading
    /\ segments = <<Segment("text", " A ")>>

\* the tags of the text pair up: open, close, open, close, ...
ProperlyClosed ==
    /\ Len(Opens) = Len(Closes)
    /\ \A j \in DOMAIN Opens :
           /\ Opens[j] + 7 <= Closes[j]
           /\ j < Len(Opens) => Closes[j] + 8 <= Opens[j + 1]

\* the segments the pairs from the j-th on stand for, with the text before
\* each pair and the text after the last
RECURSIVE PairSegments(_)
PairSegments(j) ==
    LET from == IF j = 1 THEN 1 ELSE Closes[j - 1] + 8
    IN  IF j > Len(Closes) THEN Visible(SubSeq(content, from, Len(content)))
        ELSE Visible(SubSeq(content, from, Opens[j] - 1))
                 \o <<Segment("think", SubSeq(content, Opens[j] + 7, Closes[j] - 1))>>
                 \o PairSegments(j + 1)

\* C25: "A<think>B</think>C" gives text A, reasoning B, text C; a text whose
\* tags pair up gives, in the order of the text, for each pair the non-blank
\* text before it and the interior of the pair as a reasoning segment, then
\* the non-blank text after the last pair.
C25_ClosedPairs ==
    /\ content = "A<think>B</think>C" =>
           segments = <<Segment("text", "A"), Segment("think", "B"), Segment("text", "C")>>
    /\ (ProperlyClosed /\ Len(Opens) >= 1) => segments = PairSegments(1)

\* C25 witness: the example of the documentation has been streamed and is
\* shown as its three segments.
C25_Witness ==
    /\ content = "A<think>B</think>C"
    /\ Len(segments) = 3
    /\ segments[2] = Segment("think", "B")

\* C26: "A<think>B" gives text A, reasoning B; a text with an opening tag
\* and no closing tag gives the non-blank text before the first opening tag
\* and one reasoning segment with all that follows that tag; after pairs that
\* are closed, an opening tag without its closing tag makes the last segment
\* a reasoning segment with all that follows; while the run is loading the
\* panel takes such a text as still thinking.
C26_OpenBlock ==
    /\ content = "A<think>B" => segments = <<Segment("text", "A"), Segment("think", "B")>>
    /\ (Opens # <<>> /\ Closes = <<>>) =>
           /\ segments = Visible(SubSeq(content, 1, Opens[1] - 1))
                             \o <<Segment("think", SubSeq(content, Opens[1] + 7, Len(content)))>>
           /\ loading => isThinking
    /\ ( /\ Len(Opens) = Len(Closes) + 1
         /\ \A j \in DOMAIN Closes :
                Opens[j] + 7 <= Closes[j] /\ Closes[j] + 8 <= Opens[j + 1] ) =>
           /\ segments # <<>>
           /\ segments[Len(segments)] =
                  Segment("think", SubSeq(content, Opens[Len(Opens)] + 7, Len(content)))
           /\ loading => isThinking

\* C26 witness: the text of the example is on the screen while the run is
\* still loading.
C26_Witness ==
    /\ content = "A<think>B"
    /\ loading
    /\ isThinking
    /\ segments = <<Segment("text", "A"), Segment("think", "B")>>

\* ------------------------------------------------ the history and revisits
\* EventContent, lines 92-100: the effect that runs when another event is
\* shown: reset, then the restore of the event's latest record, deferred by
\* a timer.
OpenEvent(e) ==
    /\ e # event
    /\ (\E i \in DOMAIN entries : entries[i].eventId = e) => Len(timers) < MaxTimers
    /\ resetSession
    /\ event' = e
    /\ timers' = IF \E i \in DOMAIN entries : entries[i].eventId = e
                 THEN Append(timers, getLatestForEvent(e).content)
                 ELSE timers
    /\ UNCHANGED <<entries, now, home>>

\* the timer of line 97 fires
RestoreTimer ==
    /\ timers # <<>>
    /\ restoreSession(Head(timers))
    /\ timers' = Tail(timers)
    /\ UNCHANGED <<entries, now, event, home>>

\* HistoryDrawer: the user removes a record, or all of them (App.tsx wires
\* onRemove and onClearAll to removeEntry and clearAll)
RemoveRecord(id) ==
    /\ removeEntry(id)
    /\ fired' = <<>> /\ sent' = <<>>
    /\ UNCHANGED <<content, contentRef, loading, error, started, restored,
                   toolActivities, abortRef, mounted, runs, event, timers, home>>

ClearRecords ==
    /\ entries # <<>>
    /\ clearAll
    /\ fired' = <<>> /\ sent' = <<>>
    /\ UNCHANGED <<content, contentRef, loading, error, started, restored,
                   toolActivities, abortRef, mounted, runs, event, timers, home>>

\* Plain-streaming runs for the event shown, each with a stream of one or
\* two frames, while the user goes from one event to the other and tidies
\* the history.
RevisitNext ==
    \/ runAnalysis([apiKey |-> "sk", tavilyApiKey |-> ""])
    \/ \E r \in DOMAIN runs : FetchResolved(r, "200")
    \/ \E r \in DOMAIN runs : \E payload \in {HelloPayload, WorldPayload} :
           ReadResolved(r, "data: " \o payload \o "\n")
    \/ \E r \in DOMAIN runs : ReadDone(r)
    \/ \E e \in Events : OpenEvent(e)
    \/ RestoreTimer
    \/ \E i \in DOMAIN entries : RemoveRecord(entries[i].id)
    \/ ClearRecords

RevisitSpec == Init /\ [][RevisitNext]_vars

\* A finished analysis of the event shown is recorded (App.tsx wires
\* onAnalysisComplete to addEntry).
AddRecord ==
    /\ now < MAX_ENTRIES + MaxExtra
    /\ addEntry([eventId |-> event, content |-> "Cached content"])
    /\ fired' = <<>> /\ sent' = <<>>
    /\ UNCHANGED <<content, contentRef, loading, error, started, restored,
                   toolActivities, abortRef, mounted, runs, event, timers, home>>

\* The history on its own: records are added, the newest or the oldest one
\* is removed from a list that is short or close to full, all are cleared.
HistoryNext ==
    \/ AddRecord
    \/ \E i \in {1, Len(entries)} \cap DOMAIN entries :
           /\ Len(entries) <= MaxExtra \/ Len(entries) >= MAX_ENTRIES - MaxExtra
           /\ RemoveRecord(entries[i].id)
    \/ ClearRecords

HistorySpec == Init /\ [][HistoryNext]_vars


\* --------------------------------------------------- claims on the tables
\* a separator row of n cells, each of three dashes with a blank on each side
RECURSIVE DashRow(_)
DashRow(n) == IF n = 0 THEN "|" ELSE DashRow(n - 1) \o " --- |"

\* C27 as claimed: the run-together rows come back as the header, the
\* separator |---|---| and the data row.
C27_BareSeparator ==
    content = "|A|B| |1|2|" => shown = "|A|B|\n|---|---|\n|1|2|"

\* C27: "|A|B| |1|2|" comes back as exactly three lines: the header |A|B|,
\* the separator | --- | --- | with one --- cell per column of the header,
\* and the data row |1|2|; so do any two rows run together of which the
\* first has two columns or more.
C27_RunTogetherRows ==
    /\ content = "|A|B| |1|2|" => shown = "|A|B|\n| --- | --- |\n|1|2|"
    /\ \A header, row \in TableLines :
           ( /\ content = header \o " " \o row
             /\ IsTableRow(header) /\ ~isMarkdownTableSeparator(header)
             /\ IsTableRow(row) /\ ~isMarkdownTableSeparator(row)
             /\ Columns(header) >= 2 ) =>
               Split(shown, "\n", 1) = <<header, DashRow(Columns(header)), row>>

\* C27 witness: the stored text of the example is on the screen as three
\* lines.
C27_Witness ==
    /\ content = "|A|B| |1|2|"
    /\ restored
    /\ Len(Split(shown, "\n", 1)) = 3
    /\ Split(shown, "\n", 1)[2] = "| --- | --- |"

\* the lines of the text, and the blocks of table rows among them
InputLines == Split(content, "\n", 1)
RowAt(i) == i \in DOMAIN InputLines /\ IsTableRow(InputLines[i])
SeparatorAt(i) == isMarkdownTableSeparator(InputLines[i])
BlockStart(i) == RowAt(i) /\ ~RowAt(i - 1)
BlockEnd(i) == CHOOSE k \in i..Len(InputLines) : (\A m \in i..k : RowAt(m)) /\ ~RowAt(k + 1)

\* a block of two rows or more without a separator row whose first line has
\* two columns or more; a block whose second line, and no other, is a
\* separator row
BareBlock(i) ==
    /\ BlockStart(i) /\ BlockEnd(i) > i
    /\ \A m \in i..BlockEnd(i) : ~SeparatorAt(m)
    /\ Columns(InputLines[i]) >= 2
SeparatedBlock(i) ==
    /\ BlockStart(i) /\ BlockEnd(i) > i
    /\ \A m \in i..BlockEnd(i) : SeparatorAt(m) <=> m = i + 1

\* every line as it is, and one separator row after the first line of each
\* block that has none
RECURSIVE WithSeparators(_)
WithSeparators(i) ==
    IF i > Len(InputLines) THEN <<>>
    ELSE <<InputLines[i]>>
             \o (IF BareBlock(i) THEN <<DashRow(Columns(InputLines[i]))>> ELSE <<>>)
             \o WithSeparators(i + 1)

C29_RestoreOnRevisit ==
    [][/\ \A i \in DOMAIN fired' :
              fired'[i].cb = "onComplete" =>
                  /\ fired'[i].arg # ""
                  /\ entries' # <<>>
                  /\ entries'[1].content = fired'[i].arg
                  /\ entries'[1].eventId = runs[fired'[i].run].event
                  /\ \A k \in DOMAIN entries : entries'[1].timestamp > entries[k].timestamp
       /\ event' # event =>
              LET mine == {i \in DOMAIN entries : entries[i].eventId = event'}
              IN  /\ fired' = <<>> /\ sent' = <<>>
                  /\ content' = "" /\ ~loading' /\ ~restored' /\ ~started'
                  /\ entries' = entries
                  /\ mine = {} => timers' = timers
                  /\ mine # {} =>
                         \E i \in mine :
                             /\ \A j \in mine : entries[i].timestamp >= entries[j].timestamp
                             /\ timers' = Append(timers, entries[i].content)
       /\ Len(timers') < Len(timers) =>
              /\ content' = Head(timers)
              /\ restored' /\ ~loading' /\ started' /\ error' = Null
              /\ sent' = <<>> /\ fired' = <<>>
              /\ runs' = runs /\ entries' = entries]_vars

\* C29 witness: two analyses of event E1 have completed, another event was
\* opened, and E1, opened again, shows the text of the later analysis.
C29_Witness ==
    /\ event = "E1" /\ timers = <<>>
    /\ restored /\ ~loading /\ content = " world"
    /\ Len(entries) = 2
    /\ entries[1].eventId = "E1" /\ entries[1].content = " world"
    /\ entries[2].eventId = "E1" /\ entries[2].content = "Hello"
    /\ sent = <<>>

\* C30: the history never holds more than 100 records and each record is
\* newer than the one after it; a record added to a list of 100 becomes the
\* first, the 99 newest of the old records follow it and the oldest is gone;
\* a record added to a shorter list is put in front of all the others.
C30_BoundedNewestFirst ==
    /\ [](/\ Len(entries) <= 100
          /\ \A i \in DOMAIN entries :
                 i < Len(entries) => entries[i].timestamp > entries[i + 1].timestamp)
    /\ [][now' # now =>
              /\ entries'[1].timestamp = now'
              /\ Len(entries) = 100 =>
                     /\ Len(entries') = 100
                     /\ \A k \in 2..100 : entries'[k] = entries[k - 1]
                     /\ \A k \in DOMAIN entries' : entries'[k].id # entries[100].id
              /\ Len(entries) < 100 => Tail(entries') = entries]_vars

\* C30 witness: the list is full and its first record was added to a full
\* list, whose oldest record it pushed out.
C30_Witness ==
    /\ Len(entries) = 100
    /\ entries[1].id = 101
    /\ entries[100].id = 2

\* ------------------------------------------------------ the search adapter
\* The longest result list the provider is taken to answer with.
MaxResults == 6

\* searchWithTavily, line 91: the number of results the request asks for.
MAX_RESULTS == 5

\* searchWithTavily, line 103: the JSON bodies of 2xx search responses, of the
\* shape {answer?, results?: [{title?, url?, content?}]}: the answer a string,
\* missing or a number; the results missing or a list of up to MaxResults
\* items whose fields are strings, missing, numbers or null.
ProviderResponses ==
    LET items == { [title |-> t, url |-> u, content |-> c] :
                       t \in {JStr("T"), JUndef}, u \in {JStr("U"), JNum(1)},
                       c \in {JStr("C"), JNull} }
    IN  { [answer |-> a, results |-> l] :
              a \in {JStr("Y"), JUndef, JNum(1)},
              l \in {JUndef} \cup { JArr([i \in 1..n |-> item]) :
                                        n \in 0..MaxResults, item \in items } }

\* A tool run of streamChat with one search: the first chat response asks for
\* a search, the provider answers it, the next chat response is the answer.
SearchNext ==
    \/ \E config \in {c \in Configs : c.apiKey = "sk" /\ c.tavilyApiKey = "tvly"} :
           runAnalysis(config)
    \/ \E r \in DOMAIN runs : FetchResolved(r, "200")
    \/ \E r \in DOMAIN runs :
           \E response \in IF runs[r].round = 0
                           THEN {RoundOneResponse} ELSE PlainResponses :
               ChatJsonResolved(r, response)
    \/ \E r \in DOMAIN runs : \E raw \in ProviderResponses : SearchJsonResolved(r, raw)

SearchSpec == Init /\ [][SearchNext]_vars

\* the result of the search answered in this step by run r, as the transcript
\* holds it
SearchResult(r) == runs'[r].messages[Len(runs[r].messages) + 1].content

\* C31: for every 2xx provider response the adapter returns the original
\* query, an answer that is the provider's answer when that is a string and
\* "" otherwise, and at most 5 results, each with exactly the fields title,
\* url and snippet, a field being the provider's when that is a string and ""
\* otherwise (snippet taken from the provider's content).
C31_SearchNormalization ==
    [][\A r \in DOMAIN runs : \A raw \in ProviderResponses :
           SearchJsonResolved(r, raw) =>
               LET result == SearchResult(r)
                   list == IF raw.results.type = "array" THEN raw.results.v ELSE <<>>
               IN  /\ result.query = runs[r].query
                   /\ result.answer = (IF raw.answer.type = "string" THEN raw.answer.v ELSE "")
                   /\ Len(result.results) <= MAX_RESULTS
                   /\ \A i \in DOMAIN result.results :
                          /\ DOMAIN result.results[i] = {"title", "url", "snippet"}
                          /\ result.results[i].title =
                                 (IF list[i].title.type = "string" THEN list[i].title.v ELSE "")
                          /\ result.results[i].url =
                                 (IF list[i].url.type = "string" THEN list[i].url.v ELSE "")
                          /\ result.results[i].snippet =
                                 (IF list[i].content.type = "string"
                                  THEN list[i].content.v ELSE "")]_vars

\* the entries of transcript m that answer call id, among those after entry a
Answers(m, a, id) ==
    {t \in DOMAIN m : t > a /\ m[t].role = "tool" /\ m[t].tool_call_id = id}

\* every tool call echoed in an assistant entry has exactly one tool entry,
\* after that entry and before any later assistant entry
WellFormed(m) ==
    \A a \in DOMAIN m :
        m[a].role = "assistant" =>
            \A c \in DOMAIN m[a].tool_calls :
                LET id == m[a].tool_calls[c].id
                IN  /\ Cardinality({t \in DOMAIN m : m[t].role = "tool"
                                                      /\ m[t].tool_call_id = id}) = 1
                    /\ \E t \in Answers(m, a, id) :
                           \A b \in DOMAIN m : a < b /\ b < t => m[b].role # "assistant"

\* the chat requests of the tool loop sent by the last task
LoopRequests(list) == {k \in DOMAIN list : list[k].to = "chat" /\ ~list[k].stream}

\* C32: in a tool run the transcript only grows, no entry removed or changed
\* (the forced-final request leaves it as it is and sends it followed by the
\* final instruction), and the transcript of every chat request holds, for
\* each tool call of an assistant entry, exactly one tool entry with its id,
\* after that assistant entry and before any later one.
C32_TranscriptWellFormed ==
    [][/\ \A r \in DOMAIN runs :
              Pending(runs'[r]) /\ runs'[r].at \in {"chat", "search", "final"} =>
                  /\ Len(runs[r].messages) <= Len(runs'[r].messages)
                  /\ SubSeq(runs'[r].messages, 1, Len(runs[r].messages)) = runs[r].messages
       /\ \A k \in LoopRequests(sent') :
              LET m == sent'[k].messages
                  transcript == runs'[sent'[k].run].messages
              IN  /\ m = transcript \/ m = Append(transcript, UserMsg(FinalInstruction))
                  /\ WellFormed(m)]_vars

\* the forced-final request is sent with a transcript of three rounds, one of
\* them with three tool calls
C32_Witness ==
    \E k \in LoopRequests(sent) :
        LET m == sent[k].messages
        IN  /\ m[Len(m)] = UserMsg(FinalInstruction)
            /\ Cardinality({a \in DOMAIN m : m[a].role = "assistant"}) = MAX_TOOL_ROUNDS
            /\ \E a \in DOMAIN m : m[a].role = "assistant" /\ Len(m[a].tool_calls) = 3

\* C33: from restore(text) until the next start or reset (restored stays TRUE
\* exactly then) the content stays the restored text and loading stays FALSE:
\* no callback of the run that was in flight when restore was called changes
\* the content, the loading flag, the error or the activities, and none calls
\* onComplete.
C33_RestoreDetachesRun ==
    [][restored /\ restored' /\ ~(\E config \in Configs : runAnalysis(config)) =>
           /\ content' = content
           /\ loading' = FALSE
           /\ error' = error
           /\ toolActivities' = toolActivities
           /\ \A i \in DOMAIN fired' : fired'[i].cb # "onComplete"]_vars

\* ------------------------------------------- event switches and the timers
\* Plain-streaming runs for the event shown while the user goes from one
\* event to the other; the timers of the effect fire in between.
SwitchNext ==
    \/ runAnalysis([apiKey |-> "sk", tavilyApiKey |-> ""])
    \/ \E r \in DOMAIN runs : FetchResolved(r, "200")
    \/ \E r \in DOMAIN runs : \E payload \in {HelloPayload, WorldPayload} :
           ReadResolved(r, "data: " \o payload \o "\n")
    \/ \E r \in DOMAIN runs : ReadDone(r)
    \/ \E e \in Events : OpenEvent(e)
    \/ RestoreTimer

SwitchSpec == Init /\ [][SwitchNext]_vars

\* C34: when a deferred restore runs, the text it shows is that of the latest
\* record of the event displayed at that moment, and it leaves the session as
\* it is when a run was started since the event was opened (started is set
\* and restored is not).
C34_RestoreOfDisplayedEvent ==
    [][Len(timers') < Len(timers) =>
           /\ \E i \in DOMAIN entries : entries[i].eventId = event
           /\ restored' => content' = getLatestForEvent(event).content
           /\ started /\ ~restored =>
                  /\ content' = content /\ loading' = loading
                  /\ restored' = restored]_vars

\* C35: in every reachable state of the session, loading implies started,
\* restored implies started, and restored implies not loading.
C35_SessionFlags ==
    /\ loading => started
    /\ restored => started
    /\ restored => ~loading

\* C35 witness: restore was called while a run was in flight, and a callback
\* of that run has since acted on the restored session.
C35_Witness ==
    /\ restored /\ started /\ ~loading /\ mounted
    /\ \E i \in DOMAIN fired : fired[i].cb = "chunk" /\ Pending(runs[fired[i].run])

\* ------------------------------------------------ the network responds
\* A task of a run: the promise the run awaits is settled (the response, a
\* failure, the rejection after an abort, a read of the stream or its end).
\* A chat response carries no message, an answer, or one search call.
NetworkTask ==
    \/ \E r \in DOMAIN runs : AbortRejected(r)
    \/ \E r \in DOMAIN runs : NetworkFailed(r)
    \/ \E r \in DOMAIN runs : \E status \in {"200", "500"} : FetchResolved(r, status)
    \/ \E r \in DOMAIN runs : FetchResolvedNoBody(r)
    \/ \E r \in DOMAIN runs : TextResolved(r, "boom")
    \/ \E r \in DOMAIN runs : JsonRejected(r)
    \/ \E r \in DOMAIN runs :
           \E response \in {c \in ChatResponses(runs[r].round) :
                               c.choices = <<>> \/ c.choices[1].message.tool_calls \in
                                   {JUndef, JArr(<<GoodCall(CallId(runs[r].round, 1))>>)}} :
               ChatJsonResolved(r, response)
    \/ \E r \in DOMAIN runs : \E raw \in SearchResponses : SearchJsonResolved(r, raw)
    \/ \E r \in DOMAIN runs : \E response \in PlainResponses : FinalJsonResolved(r, response)
    \/ \E r \in DOMAIN runs : ReadResolved(r, "data: " \o HelloPayload \o "\n")
    \/ \E r \in DOMAIN runs : ReadDone(r)

\* The operations of the hook and the tasks of its runs.
LoadingNext ==
    \/ \E config \in {c \in Configs : c.apiKey = "sk" /\ c.tavilyApiKey # " "} :
           runAnalysis(config)
    \/ reset
    \/ \E text \in RestoreTexts : restore(text)
    \/ Unmount
    \/ NetworkTask

\* The hook with a network that settles every pending operation: while a
\* promise of a run is pending, one of the run's tasks eventually runs.
FairSpec == Init /\ [][LoadingNext]_vars /\ WF_vars(NetworkTask)

\* C36: a session that is loading has a run in flight, and the loading that a
\* start has set is eventually cleared or superseded by a later start.
C36_LoadingClears ==
    /\ [](loading => \E r \in DOMAIN runs : Pending(runs[r]))
    /\ \A n \in 1..MaxRuns : (loading /\ abortRef = n) ~> (~loading \/ abortRef # n)

\* C36 witness: a run has ended through its done callback and the loading it
\* had set is cleared.
C36_Witness ==
    /\ ~loading /\ started /\ ~restored /\ mounted /\ abortRef = MaxRuns
    /\ \E i \in DOMAIN fired : fired[i].cb = "done" /\ fired[i].run = abortRef

\* no entry of the list has status running
NoneRunning(list) == \A k \in DOMAIN list : list[k].status # "running"

\* C37: when a task has called the done or the error callback of a run no
\* activity of the session is running, and none is while the run started
\* last is one that ended through its done or error callback.
C37_NoDanglingRunning ==
    [][/\ (\E i \in DOMAIN fired' : fired'[i].cb \in {"done", "error"}) =>
              NoneRunning(toolActivities')
       /\ (runs' # <<>> /\ runs'[Len(runs')].pc \in {"done", "failed"}) =>
              NoneRunning(toolActivities')]_vars

\* C37 witness: a search failed; its activity, running until then, has status
\* error and the run has ended through the error callback.
C37_Witness ==
    /\ mounted /\ runs # <<>> /\ runs[Len(runs)].pc = "failed"
    /\ \E i \in DOMAIN fired : fired[i].cb = "error"
    /\ \E k \in DOMAIN toolActivities :
           /\ toolActivities[k].status = "error"
           /\ toolActivities[k].query = "X"
           /\ toolActivities[k].message = NetworkErrorMessage

\* the deltas of all the data lines of `bytes`, the last line included
EveryFrame(bytes) == JoinChunks(DecodeLines(SplitLines(bytes, 1), <<>>).chunks)

\* C38: when a stream closes without the terminal marker, the text the run
\* has delivered to the chunk callback when it calls done is made of the
\* deltas of all the data lines the endpoint sent, the last line included
\* when no newline ends it, and every chunk comes before done.
C38_FinalFrameWithoutNewline ==
    [][\A r \in DOMAIN runs : \A stream \in Streams :
           (~stream.marker /\ stream.bytes = runs[r].received /\ Completes(r)) =>
               /\ runs[r].text \o ChunkText(fired') = EveryFrame(stream.bytes)
               /\ \A i \in Fired(fired', r, "chunk") :
                      \A j \in Fired(fired', r, "done") : i < j]_vars

\* ------------------------------------------------- HomePage: the event list
\* handleFilterChange, lines 86-90, and the effect its render triggers (lines
\* 64-76): the list is emptied and the filter set; the cleanup of the previous
\* effect sets its `cancelled`; the first page of the new filter is fetched.
handleFilterChange(key) ==
    /\ key # home.activeFilter
    /\ Len(home.fetches) < MaxFetches
    /\ home' = [home EXCEPT
                   !.events = <<>>,
                   !.activeFilter = key,
                   !.loading = TRUE,
                   !.offset = 0,
                   !.hasMore = TRUE,
                   !.fetches = Append([i \in DOMAIN @ |->
                                           IF @[i].caller = "effect"
                                           THEN [@[i] EXCEPT !.cancelled = TRUE] ELSE @[i]],
                                      fetchEvents(key, 0, FALSE, "effect"))]
    /\ UNCHANGED <<content, contentRef, loading, error, started, restored, toolActivities,
                   abortRef, mounted, runs, fired, sent, entries, now, event, timers>>

\* handleLoadMore, lines 78-84, up to its await; EventGrid (lines 38-79)
\* offers the button when the page is not loading, the list is not empty and
\* hasMore is set, and disables it while loadingMore is set.
handleLoadMore ==
    /\ ~home.loading /\ home.events # <<>> /\ home.hasMore /\ ~home.loadingMore
    /\ Len(home.fetches) < MaxFetches
    /\ home.offset < MaxPages * PAGE_SIZE
    /\ home' = [home EXCEPT
                   !.loadingMore = TRUE,
                   !.fetches = Append(@, fetchEvents(home.activeFilter, home.offset + PAGE_SIZE,
                                                     TRUE, "more"))]
    /\ UNCHANGED <<content, contentRef, loading, error, started, restored, toolActivities,
                   abortRef, mounted, runs, fired, sent, entries, now, event, timers>>

\* getEvents of fetch i settles: fetchEvents goes on after its await (lines
\* 49-60) and then its caller (lines 71-73, or 82-83).  The data is a page of
\* the filter and offset asked for: full, shorter than PAGE_SIZE, empty; or
\* the request fails.
EventsSettled(i, outcome) ==
    LET f == home.fetches[i]
        data == IF outcome \in {"full", "partial"}
                THEN <<[filter |-> f.filter, offset |-> f.offset]>> ELSE <<>>
    IN  /\ home' = [home EXCEPT
                       !.events = IF outcome = "failed" THEN @
                                  ELSE IF f.append THEN @ \o data ELSE data,
                       !.hasMore = (outcome = "full"),
                       !.loading = IF f.caller = "effect" /\ ~f.cancelled THEN FALSE ELSE @,
                       !.offset = IF f.caller = "more" THEN f.offset ELSE @,
                       !.loadingMore = IF f.caller = "more" THEN FALSE ELSE @,
                       !.fetches = SubSeq(@, 1, i - 1) \o SubSeq(@, i + 1, Len(@))]
        /\ UNCHANGED <<content, contentRef, loading, error, started, restored, toolActivities,
                       abortRef, mounted, runs, fired, sent, entries, now, event, timers>>

HomeNext ==
    \/ \E key \in {"new", "popular"} : handleFilterChange(key)
    \/ handleLoadMore
    \/ \E i \in DOMAIN home.fetches :
           \E outcome \in {"full", "partial", "empty", "failed"} : EventsSettled(i, outcome)

HomeSpec == Init /\ [][HomeNext]_vars

\* C39: once no fetch of events is in flight, every event of the list shown
\* was returned for the filter that is active.
C39_ListOfActiveFilter ==
    home.fetches = <<>> =>
        \A i \in DOMAIN home.events : home.events[i].filter = home.activeFilter

====
